---- MODULE Spec2Model ----
(***************************************************************************)
(* A model of the numeric-kernel layer of mistral.rs:                      *)
(*   - mistralrs-core/src/layers.rs: the rotary embeddings, the global     *)
(*     reduced-precision flag, MatMul and QLinear;                         *)
(*   - mistralrs-quant/src/hqq/hqq_op.rs: the HQQ dequantization ops;      *)
(*   - mistralrs-core/src/pipeline/normal.rs: loading a model into a       *)
(*     NormalPipeline and running its forward step.                        *)
(* Every component has a specification of its own over the shared          *)
(* variables; the variables of the other components keep their initial     *)
(* values there.                                                           *)
(***************************************************************************)
EXTENDS Integers, Sequences, FiniteSets, TLC

VARIABLES
    phi,                 \* result of the last PhiRotaryEmbedding::new
    selected,            \* last get_long_or_short_sin_cos call
    USE_MATMUL_VIA_F16,  \* static AtomicBool, layers.rs:736
    INHIBIT_GEMM_F16,    \* static AtomicBool of the crate root
    pc,                  \* per thread: position in its current call
    op,                  \* per thread: the function it is running
    arg,                 \* per thread: the via_f16 argument of a set call
    loaded,              \* per thread: the value its atomic load returned
    nloads,              \* per thread: loads of USE_MATMUL_VIA_F16 in the call
    ran,                 \* per thread: the path the call executed
    snap,                \* per thread: both flags when the call started
    frozen,              \* USE_MATMUL_VIA_F16 when the inhibit flag was set
    mm,                  \* last MatMul::matmul call with its result
    qlin,                \* the QLinear under construction and mutation
    fwd,                 \* last QLinear::forward call with its result
    dq,                  \* last dequant cpu_fwd call with its result
    rot,                 \* last rotary forward call with its outcome
    qwen,                \* a Qwen2VLRotaryEmbedding and its last compute_cos_sin
    l3,                  \* result of the last Llama3RotaryEmbedding constructor
    loader,              \* a NormalLoader and the load call it is running
    pipeline             \* the NormalPipeline it returned and its last forward

vars == <<phi, selected, USE_MATMUL_VIA_F16, INHIBIT_GEMM_F16, pc, op, arg,
          loaded, nloads, ran, snap, frozen, mm, qlin, fwd, dq, rot, qwen,
          l3, loader, pipeline>>

ropeVars == <<phi, selected, rot>>
flagVars == <<USE_MATMUL_VIA_F16, INHIBIT_GEMM_F16, pc, op, arg, loaded,
              nloads, ran, snap, frozen>>
linVars  == <<mm, qlin, fwd>>
dqVars   == <<dq>>
buildVars == <<qwen, l3>>
pipeVars == <<loader, pipeline>>

(***************************************************************************)
(* Bounds of the model.                                                    *)
(***************************************************************************)
MaxHeadDim   == 4   \* head_dim ranges over 1..MaxHeadDim
MaxFactorLen == 3   \* short_factor / long_factor have 0..MaxFactorLen entries
MaxIds       == 2   \* position_ids has 0..MaxIds entries
MaxPosId     == 2   \* small position ids 0..MaxPosId

None == "None"

(***************************************************************************)
(* PhiRotaryEmbedding (layers.rs:124-425)                                  *)
(***************************************************************************)

\* The embedding's thresholds of the spec's examples next to small ones.
OrigMaxValues == {1, 2, 100}
MaxPosValues  == {1, 2, 200}
PosIdValues   == (0..MaxPosId) \cup {99, 100}
MScaleValues  == {1, 2}

\* A rescale factor array of n entries; entry k is tagged with its index so
\* that the entries a table was built from can be told apart.
FactorArray(base, n) == [k \in 1..n |-> base + k]
ShortFactors == {FactorArray(10, n) : n \in 0..MaxFactorLen}
LongFactors  == {FactorArray(20, n) : n \in 0..MaxFactorLen}

ScaledRopeType == {"Su", "Yarn"}

PhiRopeScalingConfig ==
    {[kind |-> None, short_factor |-> <<>>, long_factor |-> <<>>,
      scaling_type |-> "Su", long_mscale |-> 0, short_mscale |-> 0]}
    \cup
    [kind : {"Classic"}, short_factor : ShortFactors, long_factor : LongFactors,
     scaling_type : ScaledRopeType, long_mscale : {0}, short_mscale : {0}]
    \cup
    [kind : {"Scaled"}, short_factor : ShortFactors, long_factor : LongFactors,
     scaling_type : ScaledRopeType, long_mscale : MScaleValues,
     short_mscale : {1}]

PhiRopeConfig ==
    [rope_scaling : PhiRopeScalingConfig,
     max_position_embeddings : MaxPosValues,
     original_max_position_embeddings : OrigMaxValues,
     head_dim : 1..MaxHeadDim]

\* Number of items of (0..dim).step_by(2): 0, 2, 4, ... below dim.
StepBy2Count(dim) == (dim + 1) \div 2

\* A sin/cos table pair: its shape, the rescale factors its inverse
\* frequencies were divided by, and the multiplier applied after sin/cos.
Table(rows, cols, factors, mult) ==
    [rows |-> rows, cols |-> cols, factors |-> factors, mult |-> mult]
NoTable == Table(0, 0, <<>>, None)

Panic == [status |-> "panic", short |-> NoTable, long |-> NoTable,
          has_long |-> FALSE, original_max_position_embeddings |-> 0]
Err(msg) == [status |-> msg, short |-> NoTable, long |-> NoTable,
             has_long |-> FALSE, original_max_position_embeddings |-> 0]
OkEmb(short, long, has_long, orig) ==
    [status |-> "ok", short |-> short, long |-> long, has_long |-> has_long,
     original_max_position_embeddings |-> orig]

\* scale <= 1.0 for scale = max as f64 / orig as f64 (inf or NaN when orig = 0).
ScaleLeOne(max, orig) == orig > 0 /\ max <= orig

\* layers.rs:197-208
scaling_factor(scaling_type, cfg) ==
    IF ScaleLeOne(cfg.max_position_embeddings,
                  cfg.original_max_position_embeddings)
    THEN "1.0"
    ELSE IF scaling_type = "Su" THEN "sqrt(1+ln(scale)/ln(orig))"
         ELSE "0.1*ln(scale)+1"

\* The first n entries of a factor array: factor[k] for k = 0..n-1.
Used(factor, n) == SubSeq(factor, 1, n)

\* layers.rs:185-251. long_factor[k] and short_factor[k] are indexed for
\* every k below the step count with no length check: a shorter array is an
\* out-of-bounds index (a panic), a longer one is read in part.
new_classic_scaled(short_factor, long_factor, scaling_type, cfg) ==
    LET dim == cfg.head_dim
        n   == StepBy2Count(dim)
    IN  IF Len(long_factor) < n \/ Len(short_factor) < n
        THEN Panic
        ELSE OkEmb(Table(cfg.max_position_embeddings, n,
                         Used(short_factor, n),
                         scaling_factor(scaling_type, cfg)),
                   Table(cfg.max_position_embeddings, n,
                         Used(long_factor, n),
                         scaling_factor(scaling_type, cfg)),
                   TRUE, cfg.original_max_position_embeddings)

\* layers.rs:253-276
new_unscaled(cfg) ==
    OkEmb(Table(cfg.max_position_embeddings, StepBy2Count(cfg.head_dim),
                <<>>, "1.0"),
          NoTable, FALSE, cfg.original_max_position_embeddings)

\* layers.rs:279-351. The three checks bail in this order; the factor arrays
\* are then indexed for every k below the step count of (0..dim).step_by(2).
new_scaled(short_factor, long_factor, scaling_type, long_mscale, short_mscale, cfg) ==
    LET dim == cfg.head_dim
        n   == StepBy2Count(dim)
    IN  IF scaling_type # "Su" THEN Err("must have type su/longrope")
        ELSE IF Len(short_factor) # dim \div 2 THEN Err("misaligned short")
        ELSE IF Len(long_factor) # dim \div 2 THEN Err("misaligned long")
        ELSE IF Len(short_factor) < n \/ Len(long_factor) < n THEN Panic
        ELSE OkEmb(Table(cfg.max_position_embeddings, n,
                         Used(short_factor, n), short_mscale),
                   Table(cfg.max_position_embeddings, n,
                         Used(long_factor, n), long_mscale),
                   TRUE, cfg.original_max_position_embeddings)

\* layers.rs:353-384
PhiRotaryEmbedding_new(cfg) ==
    LET rs == cfg.rope_scaling
    IN  CASE rs.kind = "Classic" ->
               new_classic_scaled(rs.short_factor, rs.long_factor,
                                  rs.scaling_type, cfg)
          [] rs.kind = "Scaled" ->
               new_scaled(rs.short_factor, rs.long_factor, rs.scaling_type,
                          rs.long_mscale, rs.short_mscale, cfg)
          [] OTHER -> new_unscaled(cfg)

RECURSIVE SeqMax(_)
SeqMax(s) == IF Len(s) = 1 THEN s[1]
             ELSE LET m == SeqMax(Tail(s)) IN IF s[1] > m THEN s[1] ELSE m

\* The (sin, cos) pair a selection returns, or the panic it ends in.
Pair(which, table) == [which |-> which, sin_cos |-> table]
NoPair == Pair(None, NoTable)

get_long_or_short_sin_cos_ge(self, position_ids) ==
    IF ~self.has_long THEN Pair("short", self.short)
    ELSE IF position_ids = <<>> THEN Pair("panic", NoTable)
    ELSE IF SeqMax(position_ids) + 1 >= self.original_max_position_embeddings
         THEN Pair("long", self.long) ELSE Pair("short", self.short)

\* layers.rs:387-400. max() of an empty slice is None and unwrap() panics.
get_long_or_short_sin_cos(self, position_ids) ==
    IF ~self.has_long THEN Pair("short", self.short)
    ELSE IF position_ids = <<>> THEN Pair("panic", NoTable)
    ELSE IF SeqMax(position_ids) + 1 > self.original_max_position_embeddings
         THEN Pair("long", self.long) ELSE Pair("short", self.short)

RECURSIVE SeqsUpTo(_, _)
SeqsUpTo(S, n) ==
    IF n = 0 THEN {<<>>}
    ELSE LET shorter == SeqsUpTo(S, n - 1)
         IN  shorter \cup {Append(s, x) : s \in {t \in shorter : Len(t) = n - 1},
                                          x \in S}

PositionIds == SeqsUpTo(PosIdValues, MaxIds)

NotConstructed == Err("not constructed")
NoSel == [called |-> FALSE, position_ids |-> <<>>, pair |-> NoPair]

\* A configuration has been read; no embedding is built from it yet.
RopeInit ==
    /\ phi \in {[cfg |-> c, res |-> NotConstructed] : c \in PhiRopeConfig}
    /\ selected = NoSel

\* PhiRotaryEmbedding::new(dtype, cfg, dev)
PhiNew ==
    /\ phi.res = NotConstructed
    /\ phi' = [phi EXCEPT !.res = PhiRotaryEmbedding_new(phi.cfg)]
    /\ UNCHANGED <<buildVars, pipeVars, selected, rot, flagVars, linVars, dqVars>>

\* The table selection at the head of PhiRotaryEmbedding::forward.
PhiSelect(position_ids) ==
    /\ phi.res.status = "ok"
    /\ selected = NoSel
    /\ selected' = [called |-> TRUE, position_ids |-> position_ids,
                    pair |-> get_long_or_short_sin_cos(phi.res, position_ids)]
    /\ UNCHANGED <<buildVars, pipeVars, phi, rot, flagVars, linVars, dqVars>>

RopeNext ==
    \/ PhiNew
    \/ \E ids \in PositionIds : PhiSelect(ids)

(***************************************************************************)
(* The global reduced-precision flag (layers.rs:735-745) and the calls     *)
(* that read it (layers.rs:747-783, 866-886), one atomic access per step.  *)
(***************************************************************************)
NThreads == 2
Threads  == 1..NThreads

\* MatMul::matmul, MatMul::qmatmul, MatMul::qmethod_matmul, QLinear::forward
CallOps == {"matmul", "qmatmul", "qmethod_matmul", "forward"}

NoSnap == [inhibit |-> FALSE, use |-> FALSE]

\* No thread is inside a call.
ThreadInit ==
    /\ pc = [t \in Threads |-> "idle"]
    /\ op = [t \in Threads |-> None]
    /\ arg = [t \in Threads |-> FALSE]
    /\ loaded = [t \in Threads |-> FALSE]
    /\ nloads = [t \in Threads |-> 0]
    /\ ran = [t \in Threads |-> None]
    /\ snap = [t \in Threads |-> NoSnap]
    /\ frozen = FALSE

\* layers.rs:736: both flags start false.
FlagInit ==
    /\ USE_MATMUL_VIA_F16 = FALSE
    /\ INHIBIT_GEMM_F16 = FALSE
    /\ ThreadInit

\* layers.rs:743-745
get_use_matmul_via_f16 == USE_MATMUL_VIA_F16

\* A thread enters a function; the flags at that moment are remembered.
Enter(t, o, v, at) ==
    /\ pc[t] = "idle"
    /\ pc' = [pc EXCEPT ![t] = at]
    /\ op' = [op EXCEPT ![t] = o]
    /\ arg' = [arg EXCEPT ![t] = v]
    /\ snap' = [snap EXCEPT ![t] = [inhibit |-> INHIBIT_GEMM_F16,
                                    use |-> USE_MATMUL_VIA_F16]]
    /\ UNCHANGED <<buildVars, pipeVars, USE_MATMUL_VIA_F16, INHIBIT_GEMM_F16, loaded, nloads, ran,
                   frozen, ropeVars, linVars, dqVars>>

\* set_use_matmul_via_f16(via_f16) is called.
StartSet(t, via_f16) == Enter(t, "set", via_f16, "set_load")

\* layers.rs:739, INHIBIT_GEMM_F16.load(Ordering::Relaxed)
SetLoad(t) ==
    /\ pc[t] = "set_load"
    /\ loaded' = [loaded EXCEPT ![t] = INHIBIT_GEMM_F16]
    /\ pc' = [pc EXCEPT ![t] = "set_store"]
    /\ UNCHANGED <<buildVars, pipeVars, USE_MATMUL_VIA_F16, INHIBIT_GEMM_F16, op, arg, nloads, ran,
                   snap, frozen, ropeVars, linVars, dqVars>>

set_use_matmul_via_f16_always(inhibit, via_f16, current) == via_f16

\* layers.rs:738-742: the value USE_MATMUL_VIA_F16 holds after the body, given
\* the inhibit value that was loaded.
set_use_matmul_via_f16(inhibit, via_f16, current) ==
    IF ~inhibit THEN via_f16 ELSE current

\* layers.rs:740, USE_MATMUL_VIA_F16.store(via_f16, Ordering::Relaxed), or
\* the return when the inhibit flag was read as set.
SetStore(t) ==
    /\ pc[t] = "set_store"
    /\ USE_MATMUL_VIA_F16' =
           set_use_matmul_via_f16(loaded[t], arg[t], USE_MATMUL_VIA_F16)
    /\ pc' = [pc EXCEPT ![t] = "done"]
    /\ UNCHANGED <<buildVars, pipeVars, INHIBIT_GEMM_F16, op, arg, loaded, nloads, ran, snap,
                   frozen, ropeVars, linVars, dqVars>>

\* One of the four multiply entry points is called.
StartCall(t, o) == Enter(t, o, FALSE, "call_load")

\* layers.rs:750, 768, 777, 873: get_use_matmul_via_f16()
CallLoad(t) ==
    /\ pc[t] = "call_load"
    /\ loaded' = [loaded EXCEPT ![t] = get_use_matmul_via_f16]
    /\ nloads' = [nloads EXCEPT ![t] = @ + 1]
    /\ pc' = [pc EXCEPT ![t] = "call_run"]
    /\ UNCHANGED <<buildVars, pipeVars, USE_MATMUL_VIA_F16, INHIBIT_GEMM_F16, op, arg, ran, snap,
                   frozen, ropeVars, linVars, dqVars>>

\* The routine each entry point runs on either side of its branch.
PathName(o, via_f16) ==
    CASE o = "matmul" ->
           IF via_f16 THEN "to_dtype(F16).matmul.to_dtype(original)"
           ELSE "a.matmul(b)"
      [] o = "qmatmul" ->
           IF via_f16 THEN "QMatMul::forward_via_f16" ELSE "QMatMul::forward"
      [] o = "qmethod_matmul" ->
           IF via_f16 THEN "QuantMethod::forward_via_half"
           ELSE "QuantMethod::forward"
      [] OTHER ->
           IF via_f16 THEN "forward_fn = QMatMul::forward_via_f16"
           ELSE "forward_fn = QMatMul::forward"

branch_rereads(t) == [via_f16 |-> USE_MATMUL_VIA_F16, loads |-> 1]

\* layers.rs:750-756, 768-772, 777-781, 873-884: the branch is decided by
\* the value loaded once; the body makes no further load of the flag.
branch(t) == [via_f16 |-> loaded[t], loads |-> 0]

\* The body after the branch runs to its end.
CallRun(t) ==
    /\ pc[t] = "call_run"
    /\ ran' = [ran EXCEPT ![t] = PathName(op[t], branch(t).via_f16)]
    /\ nloads' = [nloads EXCEPT ![t] = @ + branch(t).loads]
    /\ pc' = [pc EXCEPT ![t] = "done"]
    /\ UNCHANGED <<buildVars, pipeVars, USE_MATMUL_VIA_F16, INHIBIT_GEMM_F16, op, arg, loaded,
                   snap, frozen, ropeVars, linVars, dqVars>>

\* The call returns to its caller.
Return(t) ==
    /\ pc[t] = "done"
    /\ pc' = [pc EXCEPT ![t] = "idle"]
    /\ op' = [op EXCEPT ![t] = None]
    /\ arg' = [arg EXCEPT ![t] = FALSE]
    /\ loaded' = [loaded EXCEPT ![t] = FALSE]
    /\ nloads' = [nloads EXCEPT ![t] = 0]
    /\ ran' = [ran EXCEPT ![t] = None]
    /\ snap' = [snap EXCEPT ![t] = NoSnap]
    /\ UNCHANGED <<buildVars, pipeVars, USE_MATMUL_VIA_F16, INHIBIT_GEMM_F16, frozen, ropeVars,
                   linVars, dqVars>>

\* The start-up probe finds f16 GEMM unsupported: INHIBIT_GEMM_F16.store(true).
\* The flag is never stored false.
SetInhibit ==
    /\ ~INHIBIT_GEMM_F16
    /\ INHIBIT_GEMM_F16' = TRUE
    /\ frozen' = USE_MATMUL_VIA_F16
    /\ UNCHANGED <<buildVars, pipeVars, USE_MATMUL_VIA_F16, pc, op, arg, loaded, nloads, ran, snap,
                   ropeVars, linVars, dqVars>>

\* No call is in progress.
Quiet == \A t \in Threads : pc[t] = "idle"

\* One caller at a time: a call starts, and the inhibit flag is set, only
\* while no other call is in progress.
SeqStartSet(t, via_f16) == Quiet /\ StartSet(t, via_f16)
SeqStartCall(t, o)      == Quiet /\ StartCall(t, o)
SeqSetInhibit           == Quiet /\ SetInhibit

\* Any interleaving of the threads' atomic steps.
FlagNext ==
    \/ \E t \in Threads, v \in BOOLEAN : StartSet(t, v)
    \/ \E t \in Threads, o \in CallOps : StartCall(t, o)
    \/ \E t \in Threads : SetLoad(t)
    \/ \E t \in Threads : SetStore(t)
    \/ \E t \in Threads : CallLoad(t)
    \/ \E t \in Threads : CallRun(t)
    \/ \E t \in Threads : Return(t)
    \/ SetInhibit

FlagSeqNext ==
    \/ \E t \in Threads, v \in BOOLEAN : SeqStartSet(t, v)
    \/ \E t \in Threads, o \in CallOps : SeqStartCall(t, o)
    \/ \E t \in Threads : SetLoad(t)
    \/ \E t \in Threads : SetStore(t)
    \/ \E t \in Threads : CallLoad(t)
    \/ \E t \in Threads : CallRun(t)
    \/ \E t \in Threads : Return(t)
    \/ SeqSetInhibit

(***************************************************************************)
(* Tensors.  A tensor is its dtype and one integer element; a cast rounds  *)
(* the element to the significand of the target type (nearest, ties to     *)
(* even), as f32 -> f16 / bf16 conversion does.  The elements of the model *)
(* stay inside the finite range of every type.                             *)
(***************************************************************************)
DTypes == {"BF16", "F16", "F32"}

\* Significand precision in bits, including the implicit bit.
SigBits(dt) == CASE dt = "BF16" -> 8 [] dt = "F16" -> 11 [] OTHER -> 24

RECURSIVE Pow2(_)
Pow2(n) == IF n = 0 THEN 1 ELSE 2 * Pow2(n - 1)

\* Least e >= 0 with a < lim * 2^e.
RECURSIVE ExpOver(_, _)
ExpOver(a, lim) == IF a < lim THEN 0 ELSE 1 + ExpOver(a, 2 * lim)

Abs(x) == IF x < 0 THEN -x ELSE x

\* The value of type dt nearest to the integer x.
Round(x, dt) ==
    LET a    == Abs(x)
        step == Pow2(ExpOver(a, Pow2(SigBits(dt))))
        q    == a \div step
        r    == a % step
        up   == 2 * r > step \/ (2 * r = step /\ q % 2 = 1)
        m    == (IF up THEN q + 1 ELSE q) * step
    IN  IF x < 0 THEN -m ELSE m

T(dt, v) == [ok |-> TRUE, dtype |-> dt, val |-> v]
TErr     == [ok |-> FALSE, dtype |-> None, val |-> 0]

\* Tensor::to_dtype
to_dtype(t, dt) == IF ~t.ok THEN TErr ELSE T(dt, Round(t.val, dt))

\* Tensor::matmul: both operands must have one dtype, which is the result's.
matmul(a, b) ==
    IF ~a.ok \/ ~b.ok \/ a.dtype # b.dtype THEN TErr
    ELSE T(a.dtype, Round(a.val * b.val, a.dtype))

\* Tensor::broadcast_add: both operands must have one dtype.
broadcast_add(a, b) ==
    IF ~a.ok \/ ~b.ok \/ a.dtype # b.dtype THEN TErr
    ELSE T(a.dtype, Round(a.val + b.val, a.dtype))

XVals == {1, 3, 257, 2049}
WVals == {1, 3}
BVals == {1, 2049}
TensorsOf(Vals) == {T(dt, Round(v, dt)) : dt \in DTypes, v \in Vals}

(***************************************************************************)
(* MatMul (layers.rs:747-783)                                              *)
(***************************************************************************)
MatMul_matmul_no_cast_back(via_f16, a, b) ==
    IF ~via_f16 THEN matmul(a, b)
    ELSE matmul(to_dtype(a, "F16"), to_dtype(b, "F16"))

\* layers.rs:749-757, with via_f16 the value get_use_matmul_via_f16() returned
MatMul_matmul(via_f16, a, b) ==
    IF ~via_f16 THEN matmul(a, b)
    ELSE LET original_dtype == a.dtype
         IN  to_dtype(matmul(to_dtype(a, "F16"), to_dtype(b, "F16")),
                      original_dtype)

\* Nothing has been built or called yet.
Fresh == qlin.status = "none" /\ ~mm.called /\ ~fwd.called

NoMM == [called |-> FALSE, via_f16 |-> FALSE, a |-> TErr, b |-> TErr,
         res |-> TErr]

\* MatMul.matmul(a, b) is called and returns.
MatMulCall(a, b) ==
    /\ Fresh
    /\ UNCHANGED <<buildVars, pipeVars, qlin, fwd, ropeVars, flagVars, dqVars>>
    /\ mm' = [called |-> TRUE, via_f16 |-> get_use_matmul_via_f16, a |-> a,
              b |-> b, res |-> MatMul_matmul(get_use_matmul_via_f16, a, b)]

(***************************************************************************)
(* QLinear (layers.rs:785-886)                                             *)
(***************************************************************************)
\* QMatMul: a dense weight, a dense f16 weight, or a quantized weight (held
\* here by the f32 values it dequantizes to).
QMatMulOf(kind, w) == [kind |-> kind, w |-> w]
QMatMuls ==
    {QMatMulOf("Tensor", w) : w \in TensorsOf(WVals)}
    \cup {QMatMulOf("TensorF16", T("F16", v)) : v \in WVals}
    \cup {QMatMulOf("QTensor", T("F32", v)) : v \in WVals}

\* QMatMul::forward
QMatMul_forward(inner, xs) ==
    CASE inner.kind = "QTensor" ->
           IF xs.ok /\ xs.dtype = "F32" THEN matmul(xs, inner.w) ELSE TErr
      [] inner.kind = "TensorF16" ->
           to_dtype(matmul(to_dtype(xs, "F16"), inner.w), xs.dtype)
      [] OTHER -> matmul(xs, inner.w)

\* QMatMul::forward_via_f16: the weight as f16, the input cast to f16, the
\* product cast back to the input's dtype.
QMatMul_forward_via_f16(inner, xs) ==
    to_dtype(matmul(to_dtype(xs, "F16"), to_dtype(inner.w, "F16")), xs.dtype)

\* QMatMul::from_qtensor: a GGML tensor of a float type is dequantized to a
\* dense f32 weight, any other stays quantized.
GgmlDTypes == {"F32", "F16", "Q4_0", "Q8_0"}
from_qtensor(ggml, v) ==
    IF ggml \in {"F32", "F16", "BF16"} THEN QMatMulOf("Tensor", T("F32", v))
    ELSE QMatMulOf("QTensor", T("F32", v))

QLinearOf(inner, has_bias, bias, dtype) ==
    [status |-> "ok", inner |-> inner, has_bias |-> has_bias, bias |-> bias,
     dtype |-> dtype]
NoQLinear == [status |-> "none", inner |-> QMatMulOf(None, TErr),
              has_bias |-> FALSE, bias |-> TErr, dtype |-> None]
QLinearPanic == [NoQLinear EXCEPT !.status = "panic"]

\* An Option<Tensor> argument: None, or Some(b).
Some(b)  == [some |-> TRUE, t |-> b]
NoneT    == [some |-> FALSE, t |-> TErr]
OptTensors(Vals) == {NoneT} \cup {Some(b) : b \in TensorsOf(Vals)}

\* layers.rs:793-807: the bias is dequantized, which yields f32.
QLinear_new(ggml, wv, bv) ==
    QLinearOf(from_qtensor(ggml, wv), TRUE, T("F32", bv), "F32")

\* layers.rs:809-815
from_linear(w, b) == QLinearOf(QMatMulOf("Tensor", w), b.some, b.t, w.dtype)

\* layers.rs:817-824
from_parts(w, b) == QLinearOf(QMatMulOf("Tensor", w), b.some, b.t, w.dtype)

\* layers.rs:826-835: assert_eq! panics on a bias that is not f32.
from_qparts(wv, b) ==
    IF b.some /\ b.t.dtype # "F32" THEN QLinearPanic
    ELSE QLinearOf(QMatMulOf("QTensor", T("F32", wv)), b.some, b.t, "F32")

\* layers.rs:837-843
from_old_and_qmatmul(inner, old) ==
    QLinearOf(inner, old.has_bias, old.bias, old.dtype)

\* layers.rs:853-855
is_quant(self) == self.inner.kind = "QTensor"

\* layers.rs:868-872
forward_xs(self, xs) == IF is_quant(self) THEN to_dtype(xs, "F32") ELSE xs

QLinear_forward_no_final_cast(self, via_f16, xs) ==
    LET x == forward_xs(self, xs)
        y == IF ~via_f16 THEN QMatMul_forward(self.inner, x)
             ELSE QMatMul_forward_via_f16(self.inner, x)
    IN  IF self.has_bias THEN to_dtype(broadcast_add(y, self.bias), self.dtype)
        ELSE y

\* layers.rs:867-885, with via_f16 the value get_use_matmul_via_f16() returned
QLinear_forward(self, via_f16, xs) ==
    LET x == forward_xs(self, xs)
        y == IF ~via_f16 THEN QMatMul_forward(self.inner, x)
             ELSE QMatMul_forward_via_f16(self.inner, x)
    IN  IF self.has_bias THEN to_dtype(broadcast_add(y, self.bias), self.dtype)
        ELSE to_dtype(y, self.dtype)

NoFwd == [called |-> FALSE, via_f16 |-> FALSE, xs |-> TErr, res |-> TErr]

QLinearNew(ggml, wv, bv) ==
    /\ Fresh
    /\ qlin' = QLinear_new(ggml, wv, bv)
    /\ UNCHANGED <<buildVars, pipeVars, mm, fwd, ropeVars, flagVars, dqVars>>

FromLinear(w, b) ==
    /\ Fresh
    /\ qlin' = from_linear(w, b)
    /\ UNCHANGED <<buildVars, pipeVars, mm, fwd, ropeVars, flagVars, dqVars>>

FromParts(w, b) ==
    /\ Fresh
    /\ qlin' = from_parts(w, b)
    /\ UNCHANGED <<buildVars, pipeVars, mm, fwd, ropeVars, flagVars, dqVars>>

FromQParts(wv, b) ==
    /\ Fresh
    /\ qlin' = from_qparts(wv, b)
    /\ UNCHANGED <<buildVars, pipeVars, mm, fwd, ropeVars, flagVars, dqVars>>

FromOldAndQMatMul(inner) ==
    /\ qlin.status = "ok" /\ fwd = NoFwd
    /\ qlin' = from_old_and_qmatmul(inner, qlin)
    /\ UNCHANGED <<buildVars, pipeVars, mm, fwd, ropeVars, flagVars, dqVars>>

\* layers.rs:845-847: *self.inner() = inner
InnerAssign(inner) ==
    /\ qlin.status = "ok" /\ fwd = NoFwd
    /\ qlin' = [qlin EXCEPT !.inner = inner]
    /\ UNCHANGED <<buildVars, pipeVars, mm, fwd, ropeVars, flagVars, dqVars>>

\* layers.rs:861-863: *b = t for Some(b) = self.bias_mut()
BiasMutAssign(t) ==
    /\ qlin.status = "ok" /\ fwd = NoFwd
    /\ qlin.has_bias
    /\ qlin' = [qlin EXCEPT !.bias = t]
    /\ UNCHANGED <<buildVars, pipeVars, mm, fwd, ropeVars, flagVars, dqVars>>

\* self.forward(xs) is called and returns.
Forward(xs) ==
    /\ qlin.status = "ok" /\ fwd = NoFwd
    /\ fwd' = [called |-> TRUE, via_f16 |-> get_use_matmul_via_f16, xs |-> xs,
               res |-> QLinear_forward(qlin, get_use_matmul_via_f16, xs)]
    /\ UNCHANGED <<buildVars, pipeVars, mm, qlin, ropeVars, flagVars, dqVars>>

LinInit == mm = NoMM /\ qlin = NoQLinear /\ fwd = NoFwd

LinNext ==
    \/ \E a \in TensorsOf(XVals), b \in TensorsOf(WVals) :
          MatMulCall(a, b)
    \/ \E g \in GgmlDTypes, wv \in WVals, bv \in BVals : QLinearNew(g, wv, bv)
    \/ \E w \in TensorsOf(WVals), b \in OptTensors(BVals) : FromLinear(w, b)
    \/ \E w \in TensorsOf(WVals), b \in OptTensors(BVals) : FromParts(w, b)
    \/ \E wv \in WVals, b \in OptTensors(BVals) : FromQParts(wv, b)
    \/ \E inner \in QMatMuls : FromOldAndQMatMul(inner)
    \/ \E inner \in QMatMuls : InnerAssign(inner)
    \/ \E t \in TensorsOf(BVals) : BiasMutAssign(t)
    \/ \E xs \in TensorsOf(XVals) : Forward(xs)

(***************************************************************************)
(* HQQ dequantization (mistralrs-quant/src/hqq/hqq_op.rs)                  *)
(***************************************************************************)
MaxH    == 2   \* self.h ranges over 0..MaxH
MaxW    == 2   \* self.w, and the lengths of scale and zero, over 0..MaxW
MaxWLen == 4   \* the weight buffer holds 0..MaxWLen storage units

ByteVals == {0, 27, 255}

\* scale and zero of n entries, a different pair for every column.
ScaleOf(n) == [k \in 1..n |-> 2 * k + 1]
ZeroOf(n)  == [k \in 1..n |-> k]

\* Arithmetic of the element type T: every operation rounds to T.
from_f64(v, ty) == Round(v, ty)
SubT(a, b, ty)  == Round(a - b, ty)
MulT(a, b, ty)  == Round(a * b, ty)

\* CpuStorage: the variant and the slice it holds.
Storage(kind, data) == [kind |-> kind, data |-> data]

DqOk(ty, data, shape) ==
    [status |-> "ok", dtype |-> ty, data |-> data, shape |-> shape]
DqErr(msg) == [status |-> msg, dtype |-> None, data |-> <<>>, shape |-> <<>>]
DqPanic    == DqErr("panic")
DqNone     == DqErr("not called")

\* An index i of the loop reads z[j] and s[j] out of bounds, or takes a
\* remainder by zero.
ColumnPanics(self, n, s, z) ==
    \E i \in 0..(n - 1) :
        \/ self.w = 0
        \/ i % self.w >= Len(z)
        \/ i % self.w >= Len(s)

Dequant8Bit_dequantize_row(self, w, s, z, ty) ==
    IF ColumnPanics(self, Len(w), s, z) THEN DqPanic
    ELSE DqOk(ty,
              [i1 \in 1..Len(w) |->
                  LET i == i1 - 1
                      m == IF Len(s) < Len(z) THEN Len(s) ELSE Len(z)
                      j == (i \div self.w) % m
                  IN  MulT(SubT(from_f64(w[i + 1], ty), z[j + 1], ty),
                           s[j + 1], ty)],
              <<>>)

\* hqq_op.rs:14-21: out has w.len() elements; element i uses column i % self.w.
Dequant8Bit_dequantize(self, w, s, z, ty) ==
    IF ColumnPanics(self, Len(w), s, z) THEN DqPanic
    ELSE DqOk(ty,
              [i1 \in 1..Len(w) |->
                  LET i == i1 - 1
                      j == i % self.w
                  IN  MulT(SubT(from_f64(w[i + 1], ty), z[j + 1], ty),
                           s[j + 1], ty)],
              <<>>)

\* hqq_op.rs:28-58
Dequant8Bit_cpu_fwd(self, w, l_w, s, l_s, z, l_z) ==
    IF w.kind # "U8" THEN DqErr("Weight must be u8")
    ELSE IF ~(l_w /\ l_s /\ l_z) THEN DqErr("All inputs must be contiguous")
    ELSE IF s.kind = z.kind /\ s.kind \in {"F32", "F16", "BF16"}
    THEN LET out == Dequant8Bit_dequantize(self, w.data, s.data, z.data, s.kind)
         IN  IF out.status = "ok"
             THEN DqOk(s.kind, out.data, <<self.h, self.w>>)
             ELSE out
    ELSE DqErr("Dtype mismatch")

DqCall(bits, h, w, wt, l_w, s, l_s, z, l_z) ==
    [bits |-> bits, self |-> [h |-> h, w |-> w], wt |-> wt, l_w |-> l_w,
     s |-> s, l_s |-> l_s, z |-> z, l_z |-> l_z, res |-> DqNone]

\* Inputs that pass the three checks, with buffers of every length.
DqAccepted(bits) ==
    {DqCall(bits, h, w, Storage("U8", data), TRUE,
            Storage(ty, ScaleOf(ns)), TRUE, Storage(ty, ZeroOf(nz)), TRUE) :
        h \in 0..MaxH, w \in 0..MaxW,
        data \in SeqsUpTo(ByteVals, MaxWLen),
        ns \in 0..MaxW, nz \in 0..MaxW, ty \in DTypes}

\* One well-formed buffer triple under every storage type, layout and
\* scale/zero type.
DqChecked(bits) ==
    {DqCall(bits, 1, 2, Storage(wk, <<27, 255>>), l_w,
            Storage(sk, ScaleOf(2)), l_s, Storage(zk, ZeroOf(2)), l_z) :
        wk \in {"U8", "I32", "F32"},
        l_w \in BOOLEAN, l_s \in BOOLEAN, l_z \in BOOLEAN,
        sk \in DTypes \cup {"F64"}, zk \in DTypes \cup {"F64"}}

DqIdle == DqCall(0, 0, 0, Storage(None, <<>>), TRUE, Storage(None, <<>>),
                 TRUE, Storage(None, <<>>), TRUE)

DqInit == dq \in DqAccepted(8) \cup DqChecked(8)

\* Dequant8Bit { h, w }.cpu_fwd(w, l_w, s, l_s, z, l_z)
Dequant8BitFwd ==
    /\ dq.bits = 8 /\ dq.res = DqNone
    /\ dq' = [dq EXCEPT !.res = Dequant8Bit_cpu_fwd(dq.self, dq.wt, dq.l_w,
                                                    dq.s, dq.l_s, dq.z, dq.l_z)]
    /\ UNCHANGED <<buildVars, pipeVars, ropeVars, flagVars, linVars>>

DqNext == Dequant8BitFwd

(***************************************************************************)
(* The packed ops (hqq_op.rs:109-516): 4, 2 and 1 bit on bytes, 3 bit on   *)
(* signed 32-bit words.                                                    *)
(***************************************************************************)
MaxPackH   == 2   \* self.h of a packed op ranges over 0..MaxPackH
MaxPackW   == 3   \* self.w, and the lengths of scale and zero, over 0..MaxPackW
MaxPackLen == 4   \* storage units of a weight buffer of arbitrary length

\* a & b on the low n bits of two non-negative integers.
RECURSIVE BitAndN(_, _, _)
BitAndN(a, b, n) ==
    IF n = 0 THEN 0
    ELSE (a % 2) * (b % 2) + 2 * BitAndN(a \div 2, b \div 2, n - 1)

\* The low 31 bits of an i32 (two's complement) or of a u8.
Low31(x) == IF x < 0 THEN (x + 2147483647) + 1 ELSE x

\* *w & mask for a mask whose bit 31 is clear, as every mask of the file is.
BitAnd(x, mask) == BitAndN(Low31(x), mask, 31)

\* x >> n for a non-negative x.
Shr(x, n) == x \div Pow2(n)

\* PACK_FACTOR of cpu_fwd; 1 for the 8-bit op.
PACK_FACTOR(bits) ==
    CASE bits = 8 -> 1 [] bits = 4 -> 2 [] bits = 2 -> 4 [] bits = 1 -> 8
      [] bits = 3 -> 10 [] OTHER -> 0

\* The CpuStorage variant cpu_fwd destructures the weight with.
WeightKind(bits) == IF bits = 3 THEN "I32" ELSE "U8"

\* The writes of the loop, in program order: storage unit i, field k
\* (0-based) goes to out[i + nrows * k].
WriteIndex(self, i, k) == i + (self.h * self.w) * k

\* Some write of the loop lands outside out, which has n * nf elements.
WritePanics(self, n, nf) ==
    \E i \in 0..(n - 1), k \in 0..(nf - 1) : WriteIndex(self, i, k) >= n * nf

DqOkW(ty, data, shape, writes) ==
    [status |-> "ok", dtype |-> ty, data |-> data, shape |-> shape,
     writes |-> writes]

\* The loop shared by the packed dequantize routines.  fields[k + 1] is the
\* <<mask, shift>> of the k-th assignment of the loop body.  out starts as
\* T::default() = 0; an element keeps the last value written to it, and
\* writes[p] counts the assignments to out[p - 1].
dequantize_fields(self, w, s, z, ty, fields) ==
    LET n    == Len(w)
        nf   == Len(fields)
        At(p) == {ik \in (0..(n - 1)) \X (0..(nf - 1)) :
                     WriteIndex(self, ik[1], ik[2]) = p}
        Last(W) == CHOOSE x \in W : \A y \in W :
                     y[1] < x[1] \/ (y[1] = x[1] /\ y[2] <= x[2])
        Val(ik) == LET j == ik[1] % self.w
                       f == fields[ik[2] + 1]
                       raw == Shr(BitAnd(w[ik[1] + 1], f[1]), f[2])
                   IN  MulT(SubT(from_f64(raw, ty), z[j + 1], ty), s[j + 1], ty)
    IN  IF ColumnPanics(self, n, s, z) \/ WritePanics(self, n, nf) THEN DqPanic
        ELSE DqOkW(ty,
                   [p1 \in 1..(n * nf) |->
                       IF At(p1 - 1) = {} THEN 0 ELSE Val(Last(At(p1 - 1)))],
                   <<>>,
                   [p1 \in 1..(n * nf) |-> Cardinality(At(p1 - 1))])

\* 0xF0 >> 4, 0x0F
Fields4 == << <<240, 4>>, <<15, 0>> >>
\* 0xC0 >> 6, 0x30 >> 4, 0x0C >> 2, 0x03
Fields2 == << <<192, 6>>, <<48, 4>>, <<12, 2>>, <<3, 0>> >>
\* 0x80 >> 7, ..., 0x02 >> 1, 0x01
Fields1 ==
    << <<128, 7>>, <<64, 6>>, <<32, 5>>, <<16, 4>>, <<8, 3>>, <<4, 2>>,
       <<2, 1>>, <<1, 0>> >>
\* 0x38000000 >> 27, 0x07000000 >> 24, ..., 0x00000038 >> 3, 0x00000007
Fields3 ==
    << <<939524096, 27>>, <<117440512, 24>>, <<14680064, 21>>,
       <<1835008, 18>>, <<229376, 15>>, <<28672, 12>>, <<3584, 9>>,
       <<448, 6>>, <<56, 3>>, <<7, 0>> >>

Reverse(q) == [k \in 1..Len(q) |-> q[Len(q) + 1 - k]]

Dequant4Bit_dequantize_low_first(self, w, s, z, ty) ==
    dequantize_fields(self, w, s, z, ty, Reverse(Fields4))

\* hqq_op.rs:118-128
Dequant4Bit_dequantize(self, w, s, z, ty) ==
    dequantize_fields(self, w, s, z, ty, Fields4)

Dequant2Bit_dequantize_low_first(self, w, s, z, ty) ==
    dequantize_fields(self, w, s, z, ty, Reverse(Fields2))

\* hqq_op.rs:229-241
Dequant2Bit_dequantize(self, w, s, z, ty) ==
    dequantize_fields(self, w, s, z, ty, Fields2)

Dequant1Bit_dequantize_low_first(self, w, s, z, ty) ==
    dequantize_fields(self, w, s, z, ty, Reverse(Fields1))

\* hqq_op.rs:342-358
Dequant1Bit_dequantize(self, w, s, z, ty) ==
    dequantize_fields(self, w, s, z, ty, Fields1)

\* The ten fields taken from bit 29 down, so that the last is 2 bits wide.
Dequant3Bit_dequantize_from_bit_29(self, w, s, z, ty) ==
    dequantize_fields(self, w, s, z, ty,
        [k \in 1..10 |->
            IF k = 10 THEN <<3, 0>>
            ELSE <<7 * Pow2(30 - 3 * k), 30 - 3 * k>>])

\* hqq_op.rs:459-477
Dequant3Bit_dequantize(self, w, s, z, ty) ==
    dequantize_fields(self, w, s, z, ty, Fields3)

\* hqq_op.rs:135-167
Dequant4Bit_cpu_fwd(self, w, l_w, s, l_s, z, l_z) ==
    IF w.kind # "U8" THEN DqErr("Weight must be u8")
    ELSE IF ~(l_w /\ l_s /\ l_z) THEN DqErr("All inputs must be contiguous")
    ELSE IF s.kind = z.kind /\ s.kind \in {"F32", "F16", "BF16"}
    THEN LET out == Dequant4Bit_dequantize(self, w.data, s.data, z.data, s.kind)
         IN  IF out.status = "ok"
             THEN DqOkW(s.kind, out.data,
                        <<PACK_FACTOR(4) * self.h, self.w>>, out.writes)
             ELSE out
    ELSE DqErr("Dtype mismatch")

\* hqq_op.rs:248-280
Dequant2Bit_cpu_fwd(self, w, l_w, s, l_s, z, l_z) ==
    IF w.kind # "U8" THEN DqErr("Weight must be u8")
    ELSE IF ~(l_w /\ l_s /\ l_z) THEN DqErr("All inputs must be contiguous")
    ELSE IF s.kind = z.kind /\ s.kind \in {"F32", "F16", "BF16"}
    THEN LET out == Dequant2Bit_dequantize(self, w.data, s.data, z.data, s.kind)
         IN  IF out.status = "ok"
             THEN DqOkW(s.kind, out.data,
                        <<PACK_FACTOR(2) * self.h, self.w>>, out.writes)
             ELSE out
    ELSE DqErr("Dtype mismatch")

\* hqq_op.rs:365-397
Dequant1Bit_cpu_fwd(self, w, l_w, s, l_s, z, l_z) ==
    IF w.kind # "U8" THEN DqErr("Weight must be u8")
    ELSE IF ~(l_w /\ l_s /\ l_z) THEN DqErr("All inputs must be contiguous")
    ELSE IF s.kind = z.kind /\ s.kind \in {"F32", "F16", "BF16"}
    THEN LET out == Dequant1Bit_dequantize(self, w.data, s.data, z.data, s.kind)
         IN  IF out.status = "ok"
             THEN DqOkW(s.kind, out.data,
                        <<PACK_FACTOR(1) * self.h, self.w>>, out.writes)
             ELSE out
    ELSE DqErr("Dtype mismatch")

\* The dequantization started before the layouts are looked at.
Dequant3Bit_cpu_fwd_no_layout_check(self, w, l_w, s, l_s, z, l_z) ==
    IF w.kind # "I32" THEN DqErr("Weight must be i32")
    ELSE IF s.kind = z.kind /\ s.kind \in {"F32", "F16", "BF16"}
    THEN LET out == Dequant3Bit_dequantize(self, w.data, s.data, z.data, s.kind)
         IN  IF out.status = "ok"
             THEN DqOkW(s.kind, out.data,
                        <<PACK_FACTOR(3) * self.h, self.w>>, out.writes)
             ELSE out
    ELSE DqErr("Dtype mismatch")

\* hqq_op.rs:484-516
Dequant3Bit_cpu_fwd(self, w, l_w, s, l_s, z, l_z) ==
    IF w.kind # "I32" THEN DqErr("Weight must be i32")
    ELSE IF ~(l_w /\ l_s /\ l_z) THEN DqErr("All inputs must be contiguous")
    ELSE IF s.kind = z.kind /\ s.kind \in {"F32", "F16", "BF16"}
    THEN LET out == Dequant3Bit_dequantize(self, w.data, s.data, z.data, s.kind)
         IN  IF out.status = "ok"
             THEN DqOkW(s.kind, out.data,
                        <<PACK_FACTOR(3) * self.h, self.w>>, out.writes)
             ELSE out
    ELSE DqErr("Dtype mismatch")

BitWidths == {8, 4, 2, 1, 3}

\* The documented layout: field k of storage unit i holds element i of block
\* k, the fields of a byte from its most significant bit down, the ten
\* fields of a word from bit 27 down; top is the value of bits 31 and 30 of
\* a word.  codes is the row-major [PACK_FACTOR * h, w] matrix.
Pack(bits, codes, h, w, top) ==
    LET nf == PACK_FACTOR(bits)
        Shift(k) == IF bits = 3 THEN 27 - 3 * k ELSE 8 - bits * (k + 1)
        RECURSIVE Sum(_, _)
        Sum(i, k) == IF k = nf THEN 0
                     ELSE codes[k * h * w + i + 1] * Pow2(Shift(k)) + Sum(i, k + 1)
        Unit(i) == IF top >= 2
                   THEN (((top - 2) * Pow2(30) + Sum(i, 0)) - 2147483647) - 1
                   ELSE top * Pow2(30) + Sum(i, 0)
    IN  [i1 \in 1..(h * w) |-> Unit(i1 - 1)]

\* A matrix of n codes of the given width that differ from place to place.
CodeMatrix(bits, n, a, c) == [p \in 1..n |-> ((p - 1) * a + c) % Pow2(bits)]

TopBits(bits) == IF bits = 3 THEN 0..3 ELSE {0}

UnitScale(n) == [k \in 1..n |-> 1]
ZeroZero(n)  == [k \in 1..n |-> 0]

\* A weight buffer of n storage units: bytes, or words of either sign.
WeightPattern(bits, n) ==
    [i \in 1..n |->
        IF bits # 3 THEN (i * 91 + 27) % 256
        ELSE IF i % 2 = 1 THEN -(i * 123456789) ELSE i * 7654321 + 5]

DqCallP(bits, h, w, wt, l_w, s, l_s, z, l_z, codes) ==
    [bits |-> bits, self |-> [h |-> h, w |-> w], wt |-> wt, l_w |-> l_w,
     s |-> s, l_s |-> l_s, z |-> z, l_z |-> l_z, res |-> DqNone,
     codes |-> codes]

\* Well-formed calls: the weight is a packed code matrix, scale and zero
\* have one entry per column.
DqPacked(bits) ==
    {DqCallP(bits, h, w,
             Storage(WeightKind(bits),
                     Pack(bits, CodeMatrix(bits, PACK_FACTOR(bits) * h * w, a, c),
                          h, w, top)),
             TRUE,
             Storage(ty, IF unit THEN UnitScale(w) ELSE ScaleOf(w)), TRUE,
             Storage(ty, IF unit THEN ZeroZero(w) ELSE ZeroOf(w)), TRUE,
             CodeMatrix(bits, PACK_FACTOR(bits) * h * w, a, c)) :
        h \in 1..MaxPackH, w \in 1..MaxPackW, a \in {1, 3}, c \in {0, 2},
        top \in TopBits(bits), ty \in DTypes, unit \in BOOLEAN}

\* Calls that pass the three checks, with buffers of every length.
DqAnyLen(bits) ==
    {DqCallP(bits, h, w, Storage(WeightKind(bits), WeightPattern(bits, n)), TRUE,
             Storage(ty, ScaleOf(ns)), TRUE, Storage(ty, ZeroOf(nz)), TRUE,
             <<>>) :
        h \in 0..MaxPackH, w \in 0..MaxPackW, n \in 0..MaxPackLen,
        ns \in 0..MaxPackW, nz \in 0..MaxPackW, ty \in DTypes}

\* One well-formed buffer triple under every storage type, layout and
\* scale/zero type.
DqCheckedP(bits) ==
    {DqCallP(bits, 1, 2, Storage(wk, WeightPattern(bits, 2)), l_w,
             Storage(sk, ScaleOf(2)), l_s, Storage(zk, ZeroOf(2)), l_z, <<>>) :
        wk \in {"U8", "I32", "F32"},
        l_w \in BOOLEAN, l_s \in BOOLEAN, l_z \in BOOLEAN,
        sk \in DTypes \cup {"F64"}, zk \in DTypes \cup {"F64"}}

DqAllInit ==
    dq \in UNION {DqPacked(b) \cup DqAnyLen(b) \cup DqCheckedP(b) : b \in BitWidths}

\* Dequant4Bit { h, w }.cpu_fwd(w, l_w, s, l_s, z, l_z)
Dequant4BitFwd ==
    /\ dq.bits = 4 /\ dq.res = DqNone
    /\ dq' = [dq EXCEPT !.res = Dequant4Bit_cpu_fwd(dq.self, dq.wt, dq.l_w,
                                                    dq.s, dq.l_s, dq.z, dq.l_z)]
    /\ UNCHANGED <<buildVars, pipeVars, ropeVars, flagVars, linVars>>

\* Dequant2Bit { h, w }.cpu_fwd(w, l_w, s, l_s, z, l_z)
Dequant2BitFwd ==
    /\ dq.bits = 2 /\ dq.res = DqNone
    /\ dq' = [dq EXCEPT !.res = Dequant2Bit_cpu_fwd(dq.self, dq.wt, dq.l_w,
                                                    dq.s, dq.l_s, dq.z, dq.l_z)]
    /\ UNCHANGED <<buildVars, pipeVars, ropeVars, flagVars, linVars>>

\* Dequant1Bit { h, w }.cpu_fwd(w, l_w, s, l_s, z, l_z)
Dequant1BitFwd ==
    /\ dq.bits = 1 /\ dq.res = DqNone
    /\ dq' = [dq EXCEPT !.res = Dequant1Bit_cpu_fwd(dq.self, dq.wt, dq.l_w,
                                                    dq.s, dq.l_s, dq.z, dq.l_z)]
    /\ UNCHANGED <<buildVars, pipeVars, ropeVars, flagVars, linVars>>

\* Dequant3Bit { h, w }.cpu_fwd(w, l_w, s, l_s, z, l_z)
Dequant3BitFwd ==
    /\ dq.bits = 3 /\ dq.res = DqNone
    /\ dq' = [dq EXCEPT !.res = Dequant3Bit_cpu_fwd(dq.self, dq.wt, dq.l_w,
                                                    dq.s, dq.l_s, dq.z, dq.l_z)]
    /\ UNCHANGED <<buildVars, pipeVars, ropeVars, flagVars, linVars>>

DqAllNext ==
    \/ Dequant8BitFwd
    \/ Dequant4BitFwd
    \/ Dequant2BitFwd
    \/ Dequant1BitFwd
    \/ Dequant3BitFwd

(***************************************************************************)
(* Applying a rotary embedding: PhiRotaryEmbedding::forward                *)
(* (layers.rs:402-424), Llama3RotaryEmbedding::forward (layers.rs:610-651) *)
(* and Qwen2VLRotaryEmbedding::forward (layers.rs:720-729).  A q or k      *)
(* tensor is its dims and its rows, one token per (sequence, position); a  *)
(* rotated token records the table row and the routine that rotated it.    *)
(***************************************************************************)
MaxBatch  == 2   \* sequences of a batch, and entries of the offsets slice
MaxSeqLen == 2   \* positions of a sequence
MaxOffset == 1   \* cache offsets 0..MaxOffset

RT(dims, data) == [dims |-> dims, data |-> data]
NoRT == RT(<<>>, <<>>)

\* A (b, h, s, d) tensor: sequence i, position t holds the token <<name, i, t>>.
Tensor4(name, b, h, s, d) ==
    RT(<<b, h, s, d>>, [i \in 1..b |-> [t \in 1..s |-> <<name, i, t>>]])

\* A (b_sz * seq_len, h, d) tensor of n rows.
Tensor3(name, n, h, d) == RT(<<n, h, d>>, [r \in 1..n |-> <<name, 0, r>>])

\* candle_nn::rotary_emb::rope / rope_i applied to one token with one row of
\* the cos and sin tables.
Rotated(x, table, row, fn) == [x |-> x, table |-> table, row |-> row, fn |-> fn]

Embed(ok, data) == [ok |-> ok, data |-> data]
EmbedErr == Embed(FALSE, <<>>)

\* The body of the loop for sequence i (1-based) of x: cos.narrow and
\* sin.narrow to seq_len rows, x.i(i), then rope on the (1, h, s, d) slice.
\* rope and rope_i fail when the slice has more positions than the narrowed
\* tables have rows, or a feature width other than twice their columns; a
\* slice with fewer positions is rotated with their leading rows.
embed(x, i, table, offset, seq_len, fn) ==
    IF offset + seq_len > table.rows THEN EmbedErr
    ELSE IF i > x.dims[1] THEN EmbedErr
    ELSE IF x.dims[3] > seq_len \/ x.dims[4] # 2 * table.cols THEN EmbedErr
    ELSE Embed(TRUE, [t \in 1..x.dims[3] |->
                         Rotated(x.data[i][t], table, offset + t - 1, fn)])

\* Tensor::cat(&embeds, 0) of (1, h, seq_len, d) tensors taken from x.
cat(embeds, x) ==
    RT(<<Len(embeds), x.dims[2], x.dims[3], x.dims[4]>>,
       [i \in 1..Len(embeds) |-> embeds[i].data])

\* The outcome of a forward call: its status, the tensors it returns (Phi)
\* and the caller's q and k after the call.
RotRes(status, out_q, out_k, q, k) ==
    [status |-> status, out_q |-> out_q, out_k |-> out_k, q |-> q, k |-> k]

\* Every sequence rotated with the rows of the first offset.
rotate_batch_first_offset(q, k, table, offsets, fn) ==
    LET seq_len  == q.dims[3]
        q_embeds == [i \in 1..Len(offsets) |->
                        embed(q, i, table, offsets[1], seq_len, fn)]
        k_embeds == [i \in 1..Len(offsets) |->
                        embed(k, i, table, offsets[1], seq_len, fn)]
    IN  IF \E i \in 1..Len(offsets) : ~q_embeds[i].ok \/ ~k_embeds[i].ok
        THEN [ok |-> FALSE, q |-> NoRT, k |-> NoRT]
        ELSE IF Len(offsets) = 0 THEN [ok |-> FALSE, q |-> NoRT, k |-> NoRT]
        ELSE [ok |-> TRUE, q |-> cat(q_embeds, q), k |-> cat(k_embeds, k)]

\* The loop over the offsets and the two cats (layers.rs:413-423, 632-646).
rotate_batch(q, k, table, offsets, fn) ==
    LET seq_len  == q.dims[3]
        q_embeds == [i \in 1..Len(offsets) |->
                        embed(q, i, table, offsets[i], seq_len, fn)]
        k_embeds == [i \in 1..Len(offsets) |->
                        embed(k, i, table, offsets[i], seq_len, fn)]
    IN  IF \E i \in 1..Len(offsets) : ~q_embeds[i].ok \/ ~k_embeds[i].ok
        THEN [ok |-> FALSE, q |-> NoRT, k |-> NoRT]
        ELSE IF Len(offsets) = 0 THEN [ok |-> FALSE, q |-> NoRT, k |-> NoRT]
        ELSE [ok |-> TRUE, q |-> cat(q_embeds, q), k |-> cat(k_embeds, k)]

RotErr(q, k)   == RotRes("err", NoRT, NoRT, q, k)
RotPanic(q, k) == RotRes("panic", NoRT, NoRT, q, k)
NotCalled      == RotRes("not called", NoRT, NoRT, NoRT, NoRT)

\* layers.rs:402-424. q and k are shared references: the call returns new
\* tensors.
PhiRotaryEmbedding_forward(self, q, k, seqlen_offsets, position_ids) ==
    IF Len(q.dims) # 4 THEN RotErr(q, k)
    ELSE LET pair == get_long_or_short_sin_cos(self, position_ids)
         IN  IF pair.which = "panic" THEN RotPanic(q, k)
             ELSE LET r == rotate_batch(q, k, pair.sin_cos, seqlen_offsets, "rope")
                  IN  IF r.ok THEN RotRes("ok", r.q, r.k, q, k)
                      ELSE RotErr(q, k)

\* reshape((b_sz, b_sz_seq_len / b_sz, h, n_embd))?.transpose(1, 2)? of a
\* rank-3 tensor: the rows are grouped into b_sz sequences.
reshape_transpose(x, b_sz) ==
    LET n == x.dims[1]
        s == n \div b_sz
    IN  IF b_sz * s # n THEN [ok |-> FALSE, t |-> NoRT]
        ELSE [ok |-> TRUE,
              t  |-> RT(<<b_sz, x.dims[2], s, x.dims[3]>>,
                        [i \in 1..b_sz |->
                            [t \in 1..s |-> x.data[(i - 1) * s + t]]])]

\* The dimension pairs (0-based) the two candle routines rotate in a vector
\* of d features: rope pairs j with j + d/2, rope_i pairs 2j with 2j + 1.
RotationPairs(fn, d) ==
    IF fn = "rope" THEN {<<j, j + d \div 2>> : j \in 0..(d \div 2 - 1)}
    ELSE {<<2 * j, 2 * j + 1>> : j \in 0..(d \div 2 - 1)}

rope_fn_swapped(is_gptx) == IF is_gptx THEN "rope_i" ELSE "rope"

\* layers.rs:635-639
rope_fn(is_gptx) == IF is_gptx THEN "rope" ELSE "rope_i"

\* candle_nn::RotaryEmbedding::forward on the CPU: *q and then *k become
\* apply_rotary_emb of themselves, which groups the rows of the tensor into
\* b_sz sequences and rotates sequence i, for the pairs of zip(0..b_sz,
\* positions), with rows [offset_i, offset_i + seq_len) of the table, seq_len
\* being the tensor's own.
apply_rotary_emb(self, x, positions, b_sz) ==
    IF Len(x.dims) # 3 THEN [status |-> "err", t |-> x]
    ELSE IF b_sz = 0 THEN [status |-> "panic", t |-> x]
    ELSE LET x1 == reshape_transpose(x, b_sz)
             n  == IF b_sz < Len(positions) THEN b_sz ELSE Len(positions)
         IN  IF ~x1.ok THEN [status |-> "err", t |-> x]
             ELSE LET embeds == [i \in 1..n |->
                                    embed(x1.t, i, self.sin_cos, positions[i],
                                          x1.t.dims[3], rope_fn(self.is_gptx))]
                  IN  IF n = 0 \/ \E i \in 1..n : ~embeds[i].ok
                      THEN [status |-> "err", t |-> x]
                      ELSE [status |-> "ok", t |-> cat(embeds, x1.t)]

\* layers.rs:930-939: self.0.forward(positions, positions_kernel, q, k, b_sz),
\* the forward of candle_nn::RotaryEmbedding.
RotaryEmbedding_forward(self, positions, q, k, b_sz) ==
    LET q1 == apply_rotary_emb(self, q, positions, b_sz)
    IN  IF q1.status # "ok" THEN RotRes(q1.status, NoRT, NoRT, q, k)
        ELSE LET k1 == apply_rotary_emb(self, k, positions, b_sz)
             IN  RotRes(k1.status, NoRT, NoRT, q1.t, k1.t)

\* layers.rs:610-651.  q and k are exclusive references the routine assigns
\* to: in the Llama3 variant *q at 621, *k at 625, both again at 645-646.
Llama3RotaryEmbedding_forward(self, positions, q, k, b_sz) ==
    IF self.variant = "Default"
    THEN RotaryEmbedding_forward(self, positions, q, k, b_sz)
    ELSE IF Len(q.dims) # 3 THEN RotErr(q, k)
    ELSE IF b_sz = 0 THEN RotPanic(q, k)
    ELSE LET q1 == reshape_transpose(q, b_sz)
         IN  IF ~q1.ok THEN RotErr(q, k)
             ELSE IF Len(k.dims) # 3 THEN RotErr(q1.t, k)
             ELSE LET k1 == reshape_transpose(k, b_sz)
                  IN  IF ~k1.ok THEN RotErr(q1.t, k)
                      ELSE LET fn == rope_fn(self.is_gptx)
                               r  == rotate_batch(q1.t, k1.t, self.sin_cos,
                                                  positions, fn)
                           IN  IF r.ok THEN RotRes("ok", NoRT, NoRT, r.q, r.k)
                               ELSE RotErr(q1.t, k1.t)

\* candle_nn::rotary_emb::rope(&x.contiguous()?, cos, sin) on a whole batch:
\* position t of every sequence takes row t of cos and sin; the tables may
\* have more rows than x has positions.
rope_all(x, cos_sin) ==
    IF Len(x.dims) # 4 THEN [ok |-> FALSE, t |-> NoRT]
    ELSE IF x.dims[3] > cos_sin.rows \/ x.dims[4] # 2 * cos_sin.cols
    THEN [ok |-> FALSE, t |-> NoRT]
    ELSE [ok |-> TRUE,
          t  |-> RT(x.dims,
                    [i \in 1..x.dims[1] |->
                        [t \in 1..x.dims[3] |->
                            Rotated(x.data[i][t], cos_sin, t - 1, "rope")]])]

\* layers.rs:720-729: *q is assigned before k is rotated.
Qwen2VLRotaryEmbedding_forward(self, cos_sin, q, k) ==
    LET q1 == rope_all(q, cos_sin)
    IN  IF ~q1.ok THEN RotErr(q, k)
        ELSE LET k1 == rope_all(k, cos_sin)
             IN  IF ~k1.ok THEN RotErr(q1.t, k)
                 ELSE RotRes("ok", NoRT, NoRT, q1.t, k1.t)

\* A forward call: the embedding, the arguments, and the outcome.
RotCall(kind, self, q, k, offsets, position_ids, b_sz, cos_sin) ==
    [kind |-> kind, self |-> self, q |-> q, k |-> k, offsets |-> offsets,
     position_ids |-> position_ids, b_sz |-> b_sz, cos_sin |-> cos_sin,
     self_after |-> self, res |-> NotCalled]

NoRot == RotCall(None, Err("not constructed"), NoRT, NoRT, <<>>, <<>>, 0, NoTable)

\* Embeddings PhiRotaryEmbedding::new builds for head_dim 2: unscaled, and
\* scaled with a long table.
PhiEmbeddings ==
    {PhiRotaryEmbedding_new(c) :
        c \in {c \in PhiRopeConfig :
                  /\ c.head_dim = 2
                  /\ c.original_max_position_embeddings \in {1, 2}
                  /\ \/ c.rope_scaling.kind = None
                     \/ /\ c.rope_scaling.kind = "Scaled"
                        /\ c.rope_scaling.scaling_type = "Su"
                        /\ c.rope_scaling.short_factor = FactorArray(10, 1)
                        /\ c.rope_scaling.long_factor = FactorArray(20, 1)
                        /\ c.rope_scaling.long_mscale = 1}}

Offsets == SeqsUpTo(0..MaxOffset, MaxBatch)

\* rot holds the arguments of a PhiRotaryEmbedding::forward call.
PhiCalls ==
    \E e \in PhiEmbeddings, b \in 1..MaxBatch, kb \in 1..MaxBatch,
       s \in 1..MaxSeqLen, ks \in 1..MaxSeqLen, offs \in Offsets,
       ids \in {<<>>, <<0>>, <<1>>, <<0, 1>>} :
        rot = RotCall("phi", e, Tensor4("q", b, 2, s, 2),
                      Tensor4("k", kb, 1, ks, 2), offs, ids, 0, NoTable)

\* Llama3RotaryEmbedding::Llama3 { sin, cos, is_gptx }
Llama3Of(rows, cols, is_gptx) ==
    [variant |-> "Llama3", sin_cos |-> Table(rows, cols, <<>>, "llama3"),
     is_gptx |-> is_gptx]

\* Llama3RotaryEmbedding::Default(RotaryEmbedding::new(.., is_gpt_neox, ..))
DefaultOf(rows, cols, is_gpt_neox) ==
    [variant |-> "Default", sin_cos |-> Table(rows, cols, <<>>, "default"),
     is_gptx |-> is_gpt_neox]

\* rot holds the arguments of a Llama3RotaryEmbedding::forward call.
Llama3Calls ==
    \E def \in BOOLEAN, rows \in {2, 200}, cols \in {1, 2}, g \in BOOLEAN,
       n \in 1..(MaxBatch * MaxSeqLen), kn \in 1..(MaxBatch * MaxSeqLen),
       offs \in Offsets, b_sz \in 0..MaxBatch :
        rot = RotCall("llama3",
                      IF def THEN DefaultOf(rows, cols, g)
                      ELSE Llama3Of(rows, cols, g),
                      Tensor3("q", n, 2, 2 * cols),
                      Tensor3("k", kn, 1, 2 * cols), offs, <<>>, b_sz, NoTable)

\* Qwen2VLRotaryEmbedding { inv_freq, mrope_section }
Qwen2VLOf(n, section) == [inv_freq |-> [j \in 1..n |-> j], mrope_section |-> section]

\* rot holds the arguments of a Qwen2VLRotaryEmbedding::forward call.
Qwen2VLCalls ==
    \E b \in 1..MaxBatch, s \in 1..MaxSeqLen, ks \in 1..MaxSeqLen,
       rows \in 1..MaxSeqLen :
        rot = RotCall("qwen2vl", Qwen2VLOf(1, <<1>>), Tensor4("q", b, 2, s, 2),
                      Tensor4("k", b, 1, ks, 2), <<>>, <<>>, 0,
                      Table(rows, 1, <<>>, "mrope"))

RotInit == PhiCalls \/ Llama3Calls \/ Qwen2VLCalls

\* self.forward(&q, &k, seqlen_offsets, position_ids)
PhiForward ==
    /\ rot.kind = "phi" /\ rot.res = NotCalled
    /\ rot' = [rot EXCEPT !.res = PhiRotaryEmbedding_forward(
                              rot.self, rot.q, rot.k, rot.offsets,
                              rot.position_ids)]
    /\ UNCHANGED <<buildVars, pipeVars, phi, selected, flagVars, linVars, dqVars>>

\* self.forward(positions, positions_kernel, &mut q, &mut k, b_sz)
Llama3Forward ==
    /\ rot.kind = "llama3" /\ rot.res = NotCalled
    /\ rot' = [rot EXCEPT !.res = Llama3RotaryEmbedding_forward(
                              rot.self, rot.offsets, rot.q, rot.k, rot.b_sz)]
    /\ UNCHANGED <<buildVars, pipeVars, phi, selected, flagVars, linVars, dqVars>>

\* self.forward(&(cos, sin), &mut q, &mut k)
Qwen2VLForward ==
    /\ rot.kind = "qwen2vl" /\ rot.res = NotCalled
    /\ rot' = [rot EXCEPT !.res = Qwen2VLRotaryEmbedding_forward(
                              rot.self, rot.cos_sin, rot.q, rot.k)]
    /\ UNCHANGED <<buildVars, pipeVars, phi, selected, flagVars, linVars, dqVars>>

RotNext ==
    \/ PhiForward
    \/ Llama3Forward
    \/ Qwen2VLForward

(***************************************************************************)
(* Qwen2VLRotaryEmbedding: construction and the multi-axis tables          *)
(* (layers.rs:654-717).  A frequency is the index of its entry of          *)
(* inv_freq; an entry of the cos or sin table is the function applied to   *)
(* the product of a position and a frequency, kept as [fn, pos, freq].     *)
(***************************************************************************)
MaxQwenHeadDim == 8   \* head_dim of a Qwen2VLRotaryEmbedding is 1..MaxQwenHeadDim
MaxSections    == 4   \* mrope_section has 0..MaxSections widths
MaxWidth       == 2   \* every width is 0..MaxWidth

RECURSIVE SumSeq(_)
SumSeq(q) == IF q = <<>> THEN 0 ELSE q[1] + SumSeq(Tail(q))

\* layers.rs:662-678: inv_freq over (0..head_dim).step_by(2); mrope_section
\* is stored as given.
Qwen2VLRotaryEmbedding_new(head_dim, mrope_section) ==
    [status |-> "ok", emb |-> Qwen2VLOf(StepBy2Count(head_dim), mrope_section)]

\* freqs = (inv_freq_expanded matmul position_ids_expanded).transpose(2, 3),
\* of shape (3, bs, seq, inv_freq_len): layers.rs:682-689.
mrope_freqs(inv_freq, position_ids) ==
    [a \in 1..3 |->
        [b \in 1..Len(position_ids[1]) |->
            [t \in 1..Len(position_ids[1][1]) |->
                [j \in 1..Len(inv_freq) |->
                    [pos |-> position_ids[a][b][t], freq |-> inv_freq[j]]]]]]

\* Tensor::split(&splits, D::Minus1): one narrow(dim, index, split) per
\* entry of splits, index advancing by the widths; a narrow past the end of
\* the axis is an error.
RECURSIVE split(_, _, _)
split(n, splits, index) ==
    IF splits = <<>> THEN [ok |-> TRUE, parts |-> <<>>]
    ELSE IF index + splits[1] > n THEN [ok |-> FALSE, parts |-> <<>>]
    ELSE LET rest == split(n, Tail(splits), index + splits[1])
         IN  [ok |-> rest.ok,
              parts |-> <<[start |-> index, len |-> splits[1]]>> \o rest.parts]

\* The position axis the i-th part (from 0) is taken from: m.i(i % 3),
\* layers.rs:697 and 708.
section_axis_first(i) == 0

section_axis(i) == i % 3

\* .enumerate().map(|(i, m)| m.i(i % 3)) for one batch row and position,
\* then Tensor::cat on the last axis.
RECURSIVE cat_sections(_, _, _, _, _)
cat_sections(freqs, parts, i, b, t) ==
    IF i >= Len(parts) THEN <<>>
    ELSE LET m == parts[i + 1]
         IN  [c \in 1..m.len |-> freqs[section_axis(i) + 1][b][t][m.start + c]]
             \o cat_sections(freqs, parts, i + 1, b, t)

CosSin(status, dims, cos, sin) ==
    [status |-> status, dims |-> dims, cos |-> cos, sin |-> sin]

Apply(fn, rows) ==
    [b \in DOMAIN rows |->
        [t \in DOMAIN rows[b] |->
            [c \in DOMAIN rows[b][t] |->
                [fn |-> fn, pos |-> rows[b][t][c].pos,
                 freq |-> rows[b][t][c].freq]]]]

\* layers.rs:681-717.  Tensor::cat of no tensor is an error; squeeze(0)
\* drops the batch axis when it has size 1 and keeps it otherwise.
compute_cos_sin(self, position_ids) ==
    LET bs    == Len(position_ids[1])
        seq   == Len(position_ids[1][1])
        freqs == mrope_freqs(self.inv_freq, position_ids)
        sp    == split(Len(self.inv_freq), self.mrope_section, 0)
        rows  == [b \in 1..bs |->
                    [t \in 1..seq |-> cat_sections(freqs, sp.parts, 0, b, t)]]
        width == SumSeq(self.mrope_section)
    IN  IF ~sp.ok \/ sp.parts = <<>> THEN CosSin("err", <<>>, <<>>, <<>>)
        ELSE IF bs = 1
             THEN CosSin("ok", <<seq, width>>, Apply("cos", rows)[1],
                         Apply("sin", rows)[1])
             ELSE CosSin("ok", <<bs, seq, width>>, Apply("cos", rows),
                         Apply("sin", rows))

\* Position ids of shape (3, bs, seq): every entry its own value, or the
\* three axes equal as for text tokens.
MRopePositionIds ==
    {[a \in 1..3 |-> [b \in 1..bs |-> [t \in 1..seq |->
            IF distinct THEN 4 * (a - 1) + 2 * (b - 1) + (t - 1) ELSE t - 1]]] :
        bs \in 1..MaxBatch, seq \in 1..MaxSeqLen, distinct \in BOOLEAN}

NoQwenEmb == [status |-> "not constructed", emb |-> Qwen2VLOf(0, <<>>)]

QwenCall(head_dim, mrope_section, position_ids) ==
    [head_dim |-> head_dim, mrope_section |-> mrope_section,
     position_ids |-> position_ids, new |-> NoQwenEmb,
     cos_sin |-> CosSin("not called", <<>>, <<>>, <<>>)]

NoQwen == QwenCall(0, <<>>, <<>>)

QwenInit ==
    qwen \in {QwenCall(d, sec, ids) :
                d \in 1..MaxQwenHeadDim,
                sec \in SeqsUpTo(0..MaxWidth, MaxSections),
                ids \in MRopePositionIds}

\* Qwen2VLRotaryEmbedding::new(base, head_dim, device, mrope_section)
Qwen2VLNew ==
    /\ qwen.new.status = "not constructed"
    /\ qwen' = [qwen EXCEPT !.new = Qwen2VLRotaryEmbedding_new(
                                        qwen.head_dim, qwen.mrope_section)]
    /\ UNCHANGED <<l3, pipeVars, ropeVars, flagVars, linVars, dqVars>>

\* self.compute_cos_sin(&position_ids, dtype) on the constructed embedding
Qwen2VLComputeCosSin ==
    /\ qwen.new.status = "ok"
    /\ qwen.cos_sin.status = "not called"
    /\ qwen' = [qwen EXCEPT !.cos_sin = compute_cos_sin(qwen.new.emb,
                                                        qwen.position_ids)]
    /\ UNCHANGED <<l3, pipeVars, ropeVars, flagVars, linVars, dqVars>>

QwenNext ==
    \/ Qwen2VLNew
    \/ Qwen2VLComputeCosSin

(***************************************************************************)
(* Llama3RotaryEmbedding: the two constructors (layers.rs:428-608).        *)
(* Frequencies are exact fractions [n, d] in lowest terms; f32 rounding is *)
(* left out.  rope_theta is drawn as a power r^head_dim, so that           *)
(* rope_theta.powf(i / head_dim) is the integer r^i, and 2 * PI is the     *)
(* fraction 710/113.                                                       *)
(***************************************************************************)
RECURSIVE GCD(_, _)
GCD(a, b) == IF b = 0 THEN a ELSE GCD(b, a % b)

QUndef == [n |-> 0, d |-> 0]
Q(n, d) ==
    IF d = 0 THEN QUndef
    ELSE LET g == GCD(Abs(n), Abs(d))
             sgn == IF d < 0 THEN -1 ELSE 1
         IN  [n |-> (sgn * n) \div g, d |-> (sgn * d) \div g]
QInt(k) == [n |-> k, d |-> 1]
QMul(a, b) == Q(a.n * b.n, a.d * b.d)
QDiv(a, b) == Q(a.n * b.d, a.d * b.n)
QAdd(a, b) ==
    LET g == GCD(a.d, b.d)
    IN  IF g = 0 THEN QUndef
        ELSE Q(a.n * (b.d \div g) + b.n * (a.d \div g), (a.d \div g) * b.d)
QSub(a, b) == QAdd(a, [n |-> -b.n, d |-> b.d])
QLt(a, b) == a.n * b.d < b.n * a.d

TwoPi == Q(710, 113)

RECURSIVE IntPow(_, _)
IntPow(r, e) == IF e = 0 THEN 1 ELSE r * IntPow(r, e - 1)

\* theta.powf(i as f32 / head_dim as f32), on a theta that is r^head_dim
powf(theta, i, head_dim) ==
    LET r == CHOOSE x \in 1..theta : IntPow(x, head_dim) = theta
    IN  IntPow(r, i)

\* (0..head_dim).step_by(2)
StepBy2(dim) == [j \in 1..StepBy2Count(dim) |-> 2 * (j - 1)]

\* layers.rs:456-462
calculate_default_inv_freq(cfg) ==
    LET head_dim == cfg.hidden_size \div cfg.num_attention_heads
        steps    == StepBy2(head_dim)
    IN  [j \in DOMAIN steps |->
            QDiv(QInt(1), QInt(powf(cfg.rope_theta, steps[j], head_dim)))]

\* layers.rs:493-506 with the middle band collapsed onto the low one
llama3_freq_no_smoothing(freq, rope_scaling) ==
    LET high_freq_wavelen ==
            QDiv(QInt(rope_scaling.original_max_position_embeddings),
                 QInt(rope_scaling.high_freq_factor))
        wavelen == QDiv(TwoPi, freq)
    IN  IF QLt(wavelen, high_freq_wavelen) THEN freq
        ELSE QDiv(freq, QInt(rope_scaling.factor))

\* layers.rs:486-489 and 493-506: the closure applied to one frequency
llama3_freq(freq, rope_scaling) ==
    LET orig == QInt(rope_scaling.original_max_position_embeddings)
        low_freq_factor  == QInt(rope_scaling.low_freq_factor)
        high_freq_factor == QInt(rope_scaling.high_freq_factor)
        factor           == QInt(rope_scaling.factor)
        low_freq_wavelen  == QDiv(orig, low_freq_factor)
        high_freq_wavelen == QDiv(orig, high_freq_factor)
        wavelen == QDiv(TwoPi, freq)
    IN  IF QLt(wavelen, high_freq_wavelen) THEN freq
        ELSE IF QLt(low_freq_wavelen, wavelen) THEN QDiv(freq, factor)
        ELSE LET smooth == QDiv(QSub(QDiv(orig, wavelen), low_freq_factor),
                                QSub(high_freq_factor, low_freq_factor))
             IN  QAdd(QDiv(QMul(QSub(QInt(1), smooth), freq), factor),
                      QMul(smooth, freq))

\* Llama3RotaryEmbedding::Llama3 { sin, cos, is_gptx }: sin and cos are
\* freqs.sin() and freqs.cos() for freqs = t matmul inv_freq, t = 0..rows-1.
Llama3Variant(rows, inv_freq, is_gptx) ==
    [status |-> "ok", variant |-> "Llama3",
     sin |-> [fn |-> "sin", rows |-> rows, inv_freq |-> inv_freq],
     cos |-> [fn |-> "cos", rows |-> rows, inv_freq |-> inv_freq],
     is_gptx |-> is_gptx]

\* Llama3RotaryEmbedding::Default(RotaryEmbedding::new(rope_theta, head_dim,
\* max_position_embeddings, dev, is_gpt_neox, dtype))
DefaultVariant(rope_theta, head_dim, rows, is_gpt_neox) ==
    [status |-> "ok", variant |-> "Default",
     sin |-> [fn |-> "sin", rows |-> rows, inv_freq |-> <<>>],
     cos |-> [fn |-> "cos", rows |-> rows, inv_freq |-> <<>>],
     is_gptx |-> is_gpt_neox]

L3Err(msg) ==
    [status |-> msg, variant |-> None,
     sin |-> [fn |-> "sin", rows |-> 0, inv_freq |-> <<>>],
     cos |-> [fn |-> "cos", rows |-> 0, inv_freq |-> <<>>],
     is_gptx |-> FALSE]

\* layers.rs:466-524
new_llama3(cfg, is_gpt_neox) ==
    IF cfg.rope_scaling.rope_type \in {None, "default"}
    THEN DefaultVariant(cfg.rope_theta,
                        cfg.hidden_size \div cfg.num_attention_heads,
                        cfg.max_position_embeddings, is_gpt_neox)
    ELSE LET default == calculate_default_inv_freq(cfg)
         IN  Llama3Variant(cfg.max_position_embeddings,
                           [j \in DOMAIN default |->
                               llama3_freq(default[j], cfg.rope_scaling)],
                           is_gpt_neox)

\* layers.rs:568-583: the frequency of step i and its interpolation
mllama3_freq(i, head_dim, rope_theta, original_max_position_embeddings, factor_, low, high) ==
    LET freq == QDiv(QInt(1), QInt(powf(rope_theta, i, head_dim)))
        orig == QInt(original_max_position_embeddings)
        factor           == QInt(factor_)
        low_freq_factor  == QInt(low)
        high_freq_factor == QInt(high)
        low_freq_wavelen  == QDiv(orig, low_freq_factor)
        high_freq_wavelen == QDiv(orig, high_freq_factor)
        wavelen == QDiv(TwoPi, freq)
    IN  IF QLt(wavelen, high_freq_wavelen) THEN freq
        ELSE IF QLt(low_freq_wavelen, wavelen) THEN QDiv(freq, factor)
        ELSE LET smooth == QDiv(QSub(QDiv(orig, wavelen), low_freq_factor),
                                QSub(high_freq_factor, low_freq_factor))
             IN  QAdd(QDiv(QMul(QSub(QInt(1), smooth), freq), factor),
                      QMul(smooth, freq))

\* layers.rs:526-608
new_mllama3(cfg, is_gpt_neox) ==
    LET rs == cfg.rope_scaling
    IN  IF rs.rope_type \in {None, "default"}
        THEN DefaultVariant(cfg.rope_theta,
                            cfg.hidden_size \div cfg.num_attention_heads,
                            cfg.max_position_embeddings, is_gpt_neox)
        ELSE IF rs.rope_type = "llama3"
        THEN IF rs.factor = <<>>
             THEN L3Err("MLlama Llama3 RoPE needs factor parameter.")
             ELSE IF rs.low_freq_factor = <<>>
             THEN L3Err("MLlama Llama3 RoPE needs low_freq_factor parameter.")
             ELSE IF rs.high_freq_factor = <<>>
             THEN L3Err("MLlama Llama3 RoPE needs high_freq_factor parameter.")
             ELSE LET head_dim == cfg.hidden_size \div cfg.num_attention_heads
                      steps    == StepBy2(head_dim)
                  IN  Llama3Variant(
                          cfg.max_position_embeddings,
                          [j \in DOMAIN steps |->
                              mllama3_freq(steps[j], head_dim, cfg.rope_theta,
                                           rs.original_max_position_embeddings,
                                           rs.factor[1], rs.low_freq_factor[1],
                                           rs.high_freq_factor[1])],
                          is_gpt_neox)
        ELSE L3Err("MLlama does not support any other RoPE type than llama3")

\* Llama3RopeConfig / MLlamaRopeScaling; rope_scaling = None is the record
\* of rope_type None.
RopeScaling(rope_type, orig, factor, low, high) ==
    [rope_type |-> rope_type, original_max_position_embeddings |-> orig,
     factor |-> factor, low_freq_factor |-> low, high_freq_factor |-> high]

\* The fields of llama::Config and of MLlamaTextConfig the constructors read.
TextConfig(rope_scaling, rope_theta, hidden_size, heads, max_pos) ==
    [rope_scaling |-> rope_scaling, rope_theta |-> rope_theta,
     hidden_size |-> hidden_size, num_attention_heads |-> heads,
     max_position_embeddings |-> max_pos]

NotBuilt == L3Err("not built")

\* Numeric fields a model configuration can carry.
ThetaRoots   == {2, 3, 4}
HiddenSizes  == {2, 4, 8}
HeadCounts   == {1, 2}
OrigMaxL3    == {8, 64}
Factors      == {2, 8}
LowFactors   == {1, 2}
HighFactors  == {1, 4}

\* A llama configuration and the mllama configuration with the same values;
\* the factors of the mllama one are Options (<<>> is None, <<v>> is
\* Some(v)): it may lack one of them, or name a rope type that only its enum
\* has.
L3Draw(r, hs, nh, mp, ty, orig, f, lo, hi, missing, gptx) ==
    LET theta == IntPow(r, hs \div nh)
        lty   == IF ty = "yarn" THEN "llama3" ELSE ty
    IN  [cfg  |-> TextConfig(RopeScaling(lty, orig, f, lo, hi), theta, hs, nh, mp),
         mcfg |-> TextConfig(
                     RopeScaling(ty, orig,
                                 IF missing = "factor" THEN <<>> ELSE <<f>>,
                                 IF missing = "low_freq_factor" THEN <<>> ELSE <<lo>>,
                                 IF missing = "high_freq_factor" THEN <<>> ELSE <<hi>>),
                     theta, hs, nh, mp),
         is_gpt_neox |-> gptx, llama |-> NotBuilt, mllama |-> NotBuilt]

NoL3 == L3Draw(1, 1, 1, 0, None, 0, 0, 0, 0, None, FALSE)

L3Init ==
    l3 \in {L3Draw(r, hs, nh, mp, ty, orig, f, lo, hi, missing, gptx) :
              r \in ThetaRoots, hs \in HiddenSizes, nh \in HeadCounts,
              mp \in 1..MaxSeqLen, ty \in {None, "default", "llama3", "yarn"},
              orig \in OrigMaxL3, f \in Factors, lo \in LowFactors,
              hi \in HighFactors,
              missing \in {None, "factor", "low_freq_factor", "high_freq_factor"},
              gptx \in BOOLEAN}

\* Llama3RotaryEmbedding::new_llama3(dtype, &cfg, dev, is_gpt_neox)
NewLlama3 ==
    /\ l3.llama = NotBuilt
    /\ l3' = [l3 EXCEPT !.llama = new_llama3(l3.cfg, l3.is_gpt_neox)]
    /\ UNCHANGED <<qwen, pipeVars, ropeVars, flagVars, linVars, dqVars>>

\* Llama3RotaryEmbedding::new_mllama3(dtype, &cfg, dev, is_gpt_neox)
NewMLlama3 ==
    /\ l3.mllama = NotBuilt
    /\ l3' = [l3 EXCEPT !.mllama = new_mllama3(l3.mcfg, l3.is_gpt_neox)]
    /\ UNCHANGED <<qwen, pipeVars, ropeVars, flagVars, linVars, dqVars>>

\* Both constructors on one pair of configurations, in either order.
L3Next ==
    \/ NewLlama3
    \/ NewMLlama3

(***************************************************************************)
(* NormalLoader and NormalPipeline (pipeline/normal.rs).  An Option is a   *)
(* sequence: <<>> is None and <<v>> is Some(v); an Option whose content    *)
(* is never read is the boolean is_some().  A load call is followed step   *)
(* by step; every step that ends in `?` either succeeds or fails.  The     *)
(* loader is shared (&self, its from_uqff field an RwLock): the calls of   *)
(* different threads interleave step by step.                              *)
(***************************************************************************)
\* The threads that share the loader; each makes one load call.  The calls
\* meet in the from_uqff lock alone, which is written with the same value
\* by every load_model_from_hf: a call sees it written by another or not.
LoadThreads == {1, 2}

\* config.topology: Some(topology) with or without a layer that names an
\* ISQ type, and with or without a device map.
Topologies ==
    {<<>>} \cup {<<[isq |-> i, is_dummy_device_map |-> d]>> :
                    i \in BOOLEAN, d \in BOOLEAN}

ModelKinds == {"Normal", "XLora", "Lora"}

\* NormalLoader as NormalLoaderBuilder::build leaves it (normal.rs:217-231):
\* the from_uqff lock holds None.  inner is the model loader; is_xlora is
\* what the models it builds for this kind answer to is_xlora().
NormalLoaderOf(from_uqff, topology, kind, is_xlora) ==
    [config |-> [from_uqff |-> from_uqff, topology |-> topology],
     kind |-> kind, inner |-> [is_xlora |-> is_xlora], from_uqff |-> FALSE]

Event(name, ok, device) == [name |-> name, ok |-> ok, device |-> device]

\* The load call in flight: its arguments, its position, the locals
\* load_model_from_path has computed, the calls it has made, its result.
LoadCall(entry, in_situ_quant, paged_attn_config, mapper_dummy, at) ==
    [entry |-> entry, in_situ_quant |-> in_situ_quant,
     paged_attn_config |-> paged_attn_config, mapper_dummy |-> mapper_dummy,
     pc |-> at, loading_isq |-> FALSE, model_is_xlora |-> FALSE,
     events |-> <<>>, result |-> "none"]

NoLoad == LoadCall(None, FALSE, FALSE, FALSE, "idle")

Fail(call) == [call EXCEPT !.pc = "done", !.result = "err"]

\* An unwrap() of an Err: the call unwinds and returns nothing.
Panicked(call) == [call EXCEPT !.pc = "done", !.result = "panic"]

\* How lines 288-403 end: an error before the weights are loaded (reading
\* the config, the device mapper, the model loader), with the weights
\* loaded an error of get_tokenizer(..)? or a panic of the unwrap()s on the
\* generation config file, or the loaded model.
LoadOutcomes == {"ok", "err", "tokenizer err", "gen_conf panic"}

\* normal.rs:343-388: what the model object a loader macro builds answers to
\* is_xlora().  The normal models answer false and the X-LoRA models true;
\* lora_model_loader! builds a model of either answer, by the model loader.
ModelIsXLora(kind) ==
    IF kind = "Normal" THEN {FALSE}
    ELSE IF kind = "XLora" THEN {TRUE}
    ELSE BOOLEAN

\* normal.rs:258-260: the lock is written when config.from_uqff is Some
load_model_from_hf(self) ==
    [self EXCEPT !.from_uqff = IF self.config.from_uqff THEN TRUE ELSE @]

\* normal.rs:288-403: the PagedAttention downgrade, loading_isq, the load
\* device, the model loader macros, the tokenizer and the generation config
\* (serde_json::from_str(&fs::read_to_string(f).unwrap()).unwrap(), 391-393).
load_weights(self, call, outcome) ==
    LET topology == self.config.topology
        quiet == call.mapper_dummy
                 /\ (topology = <<>> \/ topology[1].is_dummy_device_map)
        paged == IF quiet THEN call.paged_attn_config ELSE FALSE
        loading_isq == \/ call.in_situ_quant
                       \/ self.config.from_uqff
                       \/ (topology # <<>> /\ topology[1].isq)
        load_device == IF ~loading_isq THEN "device" ELSE "cpu"
        loaded_ == [call EXCEPT
                      !.paged_attn_config = paged, !.loading_isq = loading_isq,
                      !.model_is_xlora = self.inner.is_xlora,
                      !.events = Append(@, Event("load", TRUE, load_device))]
    IN  IF outcome = "err" THEN Fail(call)
        ELSE IF outcome = "tokenizer err" THEN Fail(loaded_)
        ELSE IF outcome = "gen_conf panic" THEN Panicked(loaded_)
        ELSE [loaded_ EXCEPT !.pc = "loaded"]

\* normal.rs:405-431 with the error of the call dropped instead of returned
quantize_or_load_ignoring_errors(self, call, ok) ==
    IF (call.in_situ_quant \/ self.config.topology # <<>>)
       /\ ~self.config.from_uqff
    THEN [call EXCEPT !.pc = "quantized",
                      !.events = Append(@, Event("quantize", ok, "device"))]
    ELSE IF self.from_uqff
    THEN [call EXCEPT !.pc = "quantized",
                      !.events = Append(@, Event("load_from_artifacts", ok, "device"))]
    ELSE [call EXCEPT !.pc = "quantized"]

\* normal.rs:405-431: model.quantize(..)?, or model.load_from_artifacts(..)?
\* when the from_uqff lock holds paths, or neither.
quantize_or_load(self, call, ok) ==
    IF (call.in_situ_quant \/ self.config.topology # <<>>)
       /\ ~self.config.from_uqff
    THEN LET c == [call EXCEPT !.events = Append(@, Event("quantize", ok, "device"))]
         IN  IF ok THEN [c EXCEPT !.pc = "quantized"] ELSE Fail(c)
    ELSE IF self.from_uqff
    THEN LET c == [call EXCEPT !.events =
                        Append(@, Event("load_from_artifacts", ok, "device"))]
         IN  IF ok THEN [c EXCEPT !.pc = "quantized"] ELSE Fail(c)
    ELSE [call EXCEPT !.pc = "quantized"]

\* normal.rs:433-438: adapter models run without PagedAttention
final_paged_attn_config(self, call) ==
    IF self.kind \in {"XLora", "Lora"} THEN FALSE ELSE call.paged_attn_config

\* normal.rs:440-497: the cache engine, then Ok(Arc::new(Mutex::new(..)))
build_pipeline(self, call, ok) ==
    IF final_paged_attn_config(self, call) /\ ~ok THEN Fail(call)
    ELSE [call EXCEPT !.pc = "done", !.result = "ok",
                      !.events = Append(@, Event("Arc::new", TRUE, "device"))]

NoForward ==
    [called |-> FALSE, is_model_inputs |-> FALSE, paged_attn_meta |-> FALSE,
     return_raw_logits |-> FALSE, status |-> "none", variant |-> None,
     model_calls |-> <<>>]

\* NormalPipeline { model, metadata: GeneralMetadata { is_xlora,
\* cache_engine, .. }, .. } of normal.rs:464-497, with its last forward call;
\* model_is_xlora is the answer of model.is_xlora(), is_xlora the metadata
\* flag of normal.rs:335.
NormalPipelineOf(self, call) ==
    [present |-> TRUE, cache_engine |-> final_paged_attn_config(self, call),
     is_xlora |-> self.kind = "XLora", model_is_xlora |-> call.model_is_xlora,
     fwd |-> NoForward]

NoPipeline ==
    [present |-> FALSE, cache_engine |-> FALSE, is_xlora |-> FALSE,
     model_is_xlora |-> FALSE, fwd |-> NoForward]

\* inputs is a Box<dyn Any>: ModelInputs { paged_attn_meta, .. } or a value
\* of another type.
Inputs(is_model_inputs, paged_attn_meta) ==
    [is_model_inputs |-> is_model_inputs, paged_attn_meta |-> paged_attn_meta]

ForwardRes(inputs, raw, status, variant, model_calls) ==
    [called |-> TRUE, is_model_inputs |-> inputs.is_model_inputs,
     paged_attn_meta |-> inputs.paged_attn_meta, return_raw_logits |-> raw,
     status |-> status, variant |-> variant, model_calls |-> model_calls]

\* normal.rs:617-680 with the two mismatch arms passing None on
forward_inputs_unchecked(self, inputs, return_raw_logits, model_ok) ==
    LET f == IF self.model_is_xlora THEN "xlora_forward" ELSE "forward"
    IN  IF ~inputs.is_model_inputs
        THEN ForwardRes(inputs, return_raw_logits, "panic", None, <<>>)
        ELSE IF ~model_ok
        THEN ForwardRes(inputs, return_raw_logits, "err", None, <<f>>)
        ELSE ForwardRes(inputs, return_raw_logits, "ok",
                        IF return_raw_logits THEN "RawLogits"
                        ELSE "CausalGeneration", <<f>>)

\* normal.rs:617-680; inputs.downcast().expect("Downcast failed.") panics
\* on a value that is not a ModelInputs.
forward_inputs(self, inputs, return_raw_logits, model_ok) ==
    LET f == IF self.model_is_xlora THEN "xlora_forward" ELSE "forward"
    IN  IF ~inputs.is_model_inputs
        THEN ForwardRes(inputs, return_raw_logits, "panic", None, <<>>)
        ELSE IF self.cache_engine /\ ~inputs.paged_attn_meta
        THEN ForwardRes(inputs, return_raw_logits,
                        "Forward step expected a PagedAttention input metadata.",
                        None, <<>>)
        ELSE IF ~self.cache_engine /\ inputs.paged_attn_meta
        THEN ForwardRes(inputs, return_raw_logits,
                        "Forward step got a PagedAttention input metadata but there is no cache engine.",
                        None, <<>>)
        ELSE IF ~model_ok
        THEN ForwardRes(inputs, return_raw_logits, "err", None, <<f>>)
        ELSE ForwardRes(inputs, return_raw_logits, "ok",
                        IF return_raw_logits THEN "RawLogits"
                        ELSE "CausalGeneration", <<f>>)

NoLoader ==
    [self |-> NormalLoaderOf(FALSE, <<>>, None, FALSE),
     calls |-> [t \in LoadThreads |-> NoLoad]]

PipeInit ==
    /\ \E u \in BOOLEAN, t \in Topologies, k \in ModelKinds :
         \E x \in ModelIsXLora(k) :
            loader = [self |-> NormalLoaderOf(u, t, k, x),
                      calls |-> [th \in LoadThreads |-> NoLoad]]
    /\ pipeline = NoPipeline

\* Thread t has made no call yet; the threads are numbered in the order of
\* their calls.
MayCall(t) ==
    /\ loader.calls[t].pc = "idle"
    /\ \A u \in 1..(t - 1) : loader.calls[u].pc # "idle"

\* loader.load_model_from_hf(revision, token_source, dtype, device, silent,
\* mapper, in_situ_quant, paged_attn_config): normal.rs:237-275; paths?
\* returns the error of get_paths! after the lock is written.
LoadModelFromHf(t, in_situ_quant, paged_attn_config, mapper_dummy, paths_ok) ==
    /\ MayCall(t)
    /\ loader' =
        [self  |-> load_model_from_hf(loader.self),
         calls |-> [loader.calls EXCEPT ![t] =
                      IF paths_ok
                      THEN LoadCall("hf", in_situ_quant, paged_attn_config,
                                    mapper_dummy, "path")
                      ELSE Fail(LoadCall("hf", in_situ_quant, paged_attn_config,
                                         mapper_dummy, "path"))]]
    /\ UNCHANGED <<pipeline, buildVars, ropeVars, flagVars, linVars, dqVars>>

\* loader.load_model_from_path(paths, dtype, device, silent, mapper,
\* in_situ_quant, paged_attn_config) called directly: normal.rs:278
LoadModelFromPath(t, in_situ_quant, paged_attn_config, mapper_dummy) ==
    /\ MayCall(t)
    /\ loader' = [loader EXCEPT
                    !.calls[t] = LoadCall("path", in_situ_quant,
                                          paged_attn_config, mapper_dummy, "path")]
    /\ UNCHANGED <<pipeline, buildVars, ropeVars, flagVars, linVars, dqVars>>

LoadWeights(t, outcome) ==
    /\ loader.calls[t].pc = "path"
    /\ loader' = [loader EXCEPT
                    !.calls[t] = load_weights(loader.self, @, outcome)]
    /\ UNCHANGED <<pipeline, buildVars, ropeVars, flagVars, linVars, dqVars>>

\* The from_uqff lock is read here (normal.rs:424), whoever wrote it.
QuantizeOrLoad(t, ok) ==
    /\ loader.calls[t].pc = "loaded"
    /\ loader' = [loader EXCEPT
                    !.calls[t] = quantize_or_load(loader.self, @, ok)]
    /\ UNCHANGED <<pipeline, buildVars, ropeVars, flagVars, linVars, dqVars>>

\* On success the caller holds the new pipeline.
BuildPipeline(t, ok) ==
    /\ loader.calls[t].pc = "quantized"
    /\ loader' = [loader EXCEPT
                    !.calls[t] = build_pipeline(loader.self, @, ok)]
    /\ pipeline' = IF loader'.calls[t].result = "ok"
                   THEN NormalPipelineOf(loader.self, loader.calls[t])
                   ELSE pipeline
    /\ UNCHANGED <<buildVars, ropeVars, flagVars, linVars, dqVars>>

\* No load call is in flight.
Resting == \A t \in LoadThreads : loader.calls[t].pc \in {"idle", "done"}

\* pipeline.forward_inputs(inputs, return_raw_logits) by the caller that
\* holds the pipeline.
ForwardInputs(inputs, return_raw_logits, model_ok) ==
    /\ Resting /\ pipeline.present
    /\ pipeline' = [pipeline EXCEPT
                      !.fwd = forward_inputs(pipeline, inputs,
                                             return_raw_logits, model_ok)]
    /\ UNCHANGED <<loader, buildVars, ropeVars, flagVars, linVars, dqVars>>

\* The load calls of the threads that share the loader, interleaved.
PipeNext ==
    \/ \E t \in LoadThreads, i \in BOOLEAN, p \in BOOLEAN, m \in BOOLEAN,
          ok \in BOOLEAN : LoadModelFromHf(t, i, p, m, ok)
    \/ \E t \in LoadThreads, i \in BOOLEAN, p \in BOOLEAN, m \in BOOLEAN :
            LoadModelFromPath(t, i, p, m)
    \/ \E t \in LoadThreads, outcome \in LoadOutcomes : LoadWeights(t, outcome)
    \/ \E t \in LoadThreads, ok \in BOOLEAN : QuantizeOrLoad(t, ok)
    \/ \E t \in LoadThreads, ok \in BOOLEAN : BuildPipeline(t, ok)

\* One thread loads a pipeline and calls forward_inputs on it.  A forward
\* call reads and writes the pipeline alone and a load call the loader
\* alone, so the order of the two kinds of step changes neither.
ForwardNext ==
    \/ \E i \in BOOLEAN, p \in BOOLEAN, m \in BOOLEAN, ok \in BOOLEAN :
            LoadModelFromHf(1, i, p, m, ok)
    \/ \E i \in BOOLEAN, p \in BOOLEAN, m \in BOOLEAN : LoadModelFromPath(1, i, p, m)
    \/ \E outcome \in LoadOutcomes : LoadWeights(1, outcome)
    \/ \E ok \in BOOLEAN : QuantizeOrLoad(1, ok)
    \/ \E ok \in BOOLEAN : BuildPipeline(1, ok)
    \/ \E meta \in BOOLEAN, raw \in BOOLEAN, ok \in BOOLEAN :
            ForwardInputs(Inputs(TRUE, meta), raw, ok)
    \/ \E raw \in BOOLEAN : ForwardInputs(Inputs(FALSE, FALSE), raw, TRUE)

(***************************************************************************)
(* Specifications                                                          *)
(***************************************************************************)
PhiIdle == phi = [cfg |-> None, res |-> NotConstructed] /\ selected = NoSel
RopeIdle == PhiIdle /\ rot = NoRot
DqIdleInit == dq = DqIdle
BuildIdle == qwen = NoQwen /\ l3 = NoL3
PipeIdle == loader = NoLoader /\ pipeline = NoPipeline

InitRope ==
    /\ RopeInit /\ rot = NoRot /\ FlagInit /\ LinInit /\ DqIdleInit
    /\ BuildIdle /\ PipeIdle
InitFlag ==
    /\ RopeIdle /\ FlagInit /\ LinInit /\ DqIdleInit /\ BuildIdle /\ PipeIdle
InitLinear ==
    /\ RopeIdle /\ LinInit /\ DqIdleInit /\ ThreadInit /\ BuildIdle /\ PipeIdle
    /\ USE_MATMUL_VIA_F16 \in BOOLEAN /\ INHIBIT_GEMM_F16 \in BOOLEAN
InitDequant ==
    /\ RopeIdle /\ FlagInit /\ LinInit /\ DqInit /\ BuildIdle /\ PipeIdle

\* PhiRotaryEmbedding: construction, then table selection.
SpecRope == InitRope /\ [][RopeNext]_vars

\* The flags under concurrent callers.
SpecFlag == InitFlag /\ [][FlagNext]_vars

\* The flags under one caller at a time.
SpecFlagSeq == InitFlag /\ [][FlagSeqNext]_vars

\* MatMul and QLinear on tensors, under either value of the flag.
SpecLinear == InitLinear /\ [][LinNext]_vars

\* The dequantization ops on every input.
SpecDequant == InitDequant /\ [][DqNext]_vars

\* The five dequantization ops on packed matrices, on buffers of every
\* length and under every failing check.
InitDequantAll ==
    /\ RopeIdle /\ FlagInit /\ LinInit /\ DqAllInit /\ BuildIdle /\ PipeIdle
SpecDequantAll == InitDequantAll /\ [][DqAllNext]_vars

\* Applying the rotary embeddings to batches of every shape.
InitRotary ==
    /\ PhiIdle /\ RotInit /\ FlagInit /\ LinInit /\ DqIdleInit
    /\ BuildIdle /\ PipeIdle
SpecRotary == InitRotary /\ [][RotNext]_vars

\* Qwen2VLRotaryEmbedding: construction, then the tables of one batch of
\* position ids.
InitQwen ==
    /\ RopeIdle /\ FlagInit /\ LinInit /\ DqIdleInit /\ PipeIdle
    /\ QwenInit /\ l3 = NoL3
SpecQwen == InitQwen /\ [][QwenNext]_vars

\* The two Llama3RotaryEmbedding constructors on every configuration.
InitLlama3 ==
    /\ RopeIdle /\ FlagInit /\ LinInit /\ DqIdleInit /\ PipeIdle
    /\ L3Init /\ qwen = NoQwen
SpecLlama3 == InitLlama3 /\ [][L3Next]_vars

\* A NormalLoader making load calls, and forward calls on the pipeline the
\* last successful one returned.
InitPipeline ==
    /\ RopeIdle /\ FlagInit /\ LinInit /\ DqIdleInit /\ BuildIdle /\ PipeInit
SpecPipeline == InitPipeline /\ [][PipeNext]_vars
SpecForward == InitPipeline /\ [][ForwardNext]_vars

(***************************************************************************)
(* Properties                                                              *)
(***************************************************************************)
Range(q) == {q[i] : i \in 1..Len(q)}
Largest(S) == CHOOSE m \in S : \A x \in S : x <= m

Constructed == phi.res # NotConstructed
Returned(res) == res.status \notin {"ok", "panic"}

\* C1: for non-empty position_ids, an embedding with a long table returns
\* the long (sin, cos) pair exactly when max(position_ids) + 1 exceeds
\* original_max_position_embeddings and the short pair otherwise; one without
\* a long table returns the short pair for every position_ids, the empty one
\* included.  With a threshold of 100, max id 99 selects short and max id 100
\* selects long.
C1_TableSelection ==
    /\ (selected.called /\ ~phi.res.has_long) =>
            selected.pair = Pair("short", phi.res.short)
    /\ (selected.called /\ phi.res.has_long /\ selected.position_ids # <<>>) =>
            LET self == phi.res
                mx   == Largest(Range(selected.position_ids))
                long == mx + 1 > self.original_max_position_embeddings
            IN  /\ long => selected.pair = Pair("long", self.long)
                /\ ~long => selected.pair = Pair("short", self.short)
                /\ self.original_max_position_embeddings = 100 =>
                    /\ mx = 99 => selected.pair.which = "short"
                    /\ mx = 100 => selected.pair.which = "long"

\* A boundary selection: threshold 100, max id 99, the short pair of an
\* embedding that has a different long pair.
C1_Witness ==
    /\ selected.called
    /\ phi.res.has_long /\ phi.res.long # phi.res.short
    /\ phi.res.original_max_position_embeddings = 100
    /\ selected.position_ids = <<99, 0>>
    /\ selected.pair = Pair("short", phi.res.short)

\* C2: a Classic scaling config whose short_factor or long_factor length
\* differs from head_dim/2 makes the constructor return an error: it neither
\* builds a table nor panics.
C2_ClassicLengthRejected ==
    (/\ Constructed
     /\ phi.cfg.rope_scaling.kind = "Classic"
     /\ \/ Len(phi.cfg.rope_scaling.short_factor) # phi.cfg.head_dim \div 2
        \/ Len(phi.cfg.rope_scaling.long_factor) # phi.cfg.head_dim \div 2)
    => Returned(phi.res)

\* C3: a Scaled config returns an error and builds no table when the type is
\* not su/longrope or a factor length differs from head_dim/2, and returns an
\* embedding with a short and a long table when all three checks pass.
C3_ScaledChecks ==
    (Constructed /\ phi.cfg.rope_scaling.kind = "Scaled") =>
        LET rs  == phi.cfg.rope_scaling
            bad == \/ rs.scaling_type # "Su"
                   \/ Len(rs.short_factor) # phi.cfg.head_dim \div 2
                   \/ Len(rs.long_factor) # phi.cfg.head_dim \div 2
        IN  IF bad
            THEN Returned(phi.res) /\ phi.res.short = NoTable
                 /\ phi.res.long = NoTable
            ELSE phi.res.status = "ok" /\ phi.res.has_long
                 /\ phi.res.short # NoTable /\ phi.res.long # NoTable

\* C4: with one caller at a time, set_use_matmul_via_f16(v) entered while
\* INHIBIT_GEMM_F16 is true leaves USE_MATMUL_VIA_F16 as it was, and entered
\* while it is false makes get_use_matmul_via_f16() return v; once the
\* inhibit flag is set the flag keeps the value it had at that moment.
C4_SequentialToggle ==
    /\ \A t \in Threads :
          (pc[t] = "done" /\ op[t] = "set") =>
              IF snap[t].inhibit
              THEN USE_MATMUL_VIA_F16 = snap[t].use
              ELSE get_use_matmul_via_f16 = arg[t]
    /\ INHIBIT_GEMM_F16 => USE_MATMUL_VIA_F16 = frozen

\* A request for the other value has returned with the inhibit flag set.
C4_Witness ==
    \E t \in Threads :
        /\ pc[t] = "done" /\ op[t] = "set"
        /\ snap[t].inhibit /\ arg[t] # USE_MATMUL_VIA_F16

\* C5: under every interleaving, USE_MATMUL_VIA_F16 never changes after the
\* step at which INHIBIT_GEMM_F16 became true.
C5_NoChangeAfterInhibit ==
    [][INHIBIT_GEMM_F16 => USE_MATMUL_VIA_F16' = USE_MATMUL_VIA_F16]_vars

\* C6: MatMul::matmul with the flag off is exactly a.matmul(b) on the
\* operands as given; with the flag on both operands are cast to F16,
\* multiplied, and the product is cast to a's dtype.  A result has a's dtype.
C6_MatMulPaths ==
    mm.called =>
        /\ ~mm.via_f16 =>
              mm.res = IF mm.a.dtype = mm.b.dtype
                       THEN T(mm.a.dtype, Round(mm.a.val * mm.b.val, mm.a.dtype))
                       ELSE TErr
        /\ mm.via_f16 =>
              mm.res = T(mm.a.dtype,
                         Round(Round(Round(mm.a.val, "F16") * Round(mm.b.val, "F16"),
                                     "F16"),
                               mm.a.dtype))
        /\ mm.res.ok => mm.res.dtype = mm.a.dtype

\* The reduced-precision path on f32 operands, its rounding visible in the
\* f32 result.
C6_Witness ==
    /\ mm.called /\ mm.via_f16
    /\ mm.a.dtype = "F32" /\ mm.b.dtype = "F32"
    /\ mm.res.ok /\ mm.res.dtype = "F32"
    /\ mm.res.val # mm.a.val * mm.b.val

\* C7: a call of matmul, qmatmul, qmethod_matmul or QLinear::forward loads
\* the precision flag exactly once and runs the one routine that value
\* selects, whatever the other threads store meanwhile.
C7_FlagReadOnce ==
    \A t \in Threads :
        op[t] \in CallOps =>
            /\ nloads[t] <= 1
            /\ pc[t] \in {"call_run", "done"} => nloads[t] = 1
            /\ pc[t] = "done" => ran[t] = PathName(op[t], loaded[t])

\* Two calls in flight at once, past their loads, on different paths.
C7_Witness ==
    \E t \in Threads, u \in Threads :
        /\ pc[t] = "call_run" /\ pc[u] = "done" /\ op[u] \in CallOps
        /\ loaded[t] /\ ~loaded[u]
        /\ ran[u] = PathName(op[u], FALSE)

\* C8: QLinear::forward casts x to F32 when the weight is quantized and
\* passes it unchanged when dense, multiplies, adds the bias when present
\* and casts to self.dtype; a successful forward returns dtype self.dtype.
C8_ForwardDType ==
    fwd.called =>
        LET x == IF qlin.inner.kind = "QTensor"
                 THEN T("F32", Round(fwd.xs.val, "F32")) ELSE fwd.xs
            y == IF fwd.via_f16 THEN QMatMul_forward_via_f16(qlin.inner, x)
                 ELSE QMatMul_forward(qlin.inner, x)
            z == IF qlin.has_bias THEN broadcast_add(y, qlin.bias) ELSE y
        IN  /\ fwd.res = IF z.ok THEN T(qlin.dtype, Round(z.val, qlin.dtype))
                         ELSE TErr
            /\ fwd.res.ok => fwd.res.dtype = qlin.dtype

\* A forward without bias whose product has another dtype than self.dtype.
C8_Witness ==
    /\ fwd.called /\ fwd.res.ok /\ ~qlin.has_bias
    /\ fwd.xs.dtype # qlin.dtype
    /\ fwd.res.dtype = qlin.dtype

\* C9: every QLinear built and changed through its constructors and
\* mutators holds an F32 bias whenever its weight is quantized and a bias is
\* present.
C9_QuantBiasIsF32 ==
    (qlin.status = "ok" /\ is_quant(qlin) /\ qlin.has_bias) =>
        qlin.bias.dtype = "F32"

DqPassesChecks ==
    /\ dq.wt.kind = "U8"
    /\ dq.l_w /\ dq.l_s /\ dq.l_z
    /\ dq.s.kind = dq.z.kind /\ dq.s.kind \in {"F32", "F16", "BF16"}

\* C10: 8-bit dequantization of h*w contiguous bytes with scale and zero of
\* length w returns shape [h, w], and out[i] = (weight[i] - zero[i mod w]) *
\* scale[i mod w]: element (r, c) uses column c's pair.
C10_Dequant8Bit ==
    (/\ dq.bits = 8 /\ dq.res # DqNone
     /\ DqPassesChecks
     /\ Len(dq.wt.data) = dq.self.h * dq.self.w
     /\ Len(dq.s.data) = dq.self.w /\ Len(dq.z.data) = dq.self.w)
    => LET h  == dq.self.h
           w  == dq.self.w
           ty == dq.s.kind
           Affine(v, c) ==
               Round(Round(v - dq.z.data[c + 1], ty) * dq.s.data[c + 1], ty)
       IN  /\ dq.res.status = "ok"
           /\ dq.res.dtype = ty
           /\ dq.res.shape = <<h, w>>
           /\ Len(dq.res.data) = h * w
           /\ \A i \in 0..(h * w - 1) :
                 dq.res.data[i + 1] = Affine(dq.wt.data[i + 1], i % w)
           /\ \A r \in 0..(h - 1), c \in 0..(w - 1) :
                 dq.res.data[r * w + c + 1] =
                     Affine(dq.wt.data[r * w + c + 1], c)

\* A 2 x 2 matrix of equal bytes: the columns differ by their scale and zero.
C10_Witness ==
    /\ dq.bits = 8 /\ dq.res.status = "ok"
    /\ dq.self = [h |-> 2, w |-> 2]
    /\ dq.wt.data = <<255, 255, 255, 255>>
    /\ dq.s.kind = "BF16"
    /\ dq.res.shape = <<2, 2>>
    /\ dq.res.data[1] = dq.res.data[3] /\ dq.res.data[1] # dq.res.data[2]

DqWellFormed(bits) ==
    /\ dq.bits = bits /\ dq.res # DqNone
    /\ dq.wt.kind = WeightKind(bits)
    /\ dq.l_w /\ dq.l_s /\ dq.l_z
    /\ dq.s.kind = dq.z.kind /\ dq.s.kind \in {"F32", "F16", "BF16"}
    /\ Len(dq.wt.data) = dq.self.h * dq.self.w
    /\ Len(dq.s.data) = dq.self.w /\ Len(dq.z.data) = dq.self.w

\* (v - zero[c]) * scale[c] in the arithmetic of the scale type.
DqAffine(v, c) ==
    Round(Round(v - dq.z.data[c + 1], dq.s.kind) * dq.s.data[c + 1], dq.s.kind)

\* C11: 4-bit dequantization sends the high nibble of byte i to out[i] and
\* the low nibble to out[h*w + i], both with column i mod w.
C11_Dequant4Bit ==
    DqWellFormed(4) =>
        LET n == dq.self.h * dq.self.w
        IN  /\ dq.res.status = "ok"
            /\ Len(dq.res.data) = 2 * n
            /\ \A i \in 0..(n - 1) :
                  /\ dq.res.data[i + 1] =
                         DqAffine(dq.wt.data[i + 1] \div 16, i % dq.self.w)
                  /\ dq.res.data[n + i + 1] =
                         DqAffine(dq.wt.data[i + 1] % 16, i % dq.self.w)

\* h = 2, w = 3: code 5 at (row 0, col 1) is the high nibble of byte 1.
C11_Witness ==
    /\ dq.bits = 4 /\ dq.res.status = "ok"
    /\ dq.self = [h |-> 2, w |-> 3]
    /\ Len(dq.codes) = 12 /\ dq.codes[0 * 3 + 1 + 1] = 5
    /\ dq.wt.data[1 + 1] \div 16 = 5
    /\ dq.wt.data[1 + 1] % 16 # 5
    /\ dq.s.data = UnitScale(3) /\ dq.z.data = ZeroZero(3)
    /\ dq.res.data[0 * 3 + 1 + 1] = 5

\* C12: for b in {2, 1}, the k-th b-bit field of byte i from the most
\* significant bit goes to out[k*h*w + i] with column i mod w, which is the
\* column (k*h*w + i) mod w of the output element.
C12_Dequant2And1Bit ==
    \A b \in {2, 1} :
        DqWellFormed(b) =>
            LET n == dq.self.h * dq.self.w
            IN  /\ dq.res.status = "ok"
                /\ Len(dq.res.data) = (8 \div b) * n
                /\ \A i \in 0..(n - 1), k \in 0..((8 \div b) - 1) :
                      /\ dq.res.data[k * n + i + 1] =
                             DqAffine((dq.wt.data[i + 1] \div Pow2(8 - b * (k + 1)))
                                          % Pow2(b),
                                      i % dq.self.w)
                      /\ i % dq.self.w = (k * n + i) % dq.self.w

\* A 2-bit and a 1-bit call on a matrix of two columns with distinct pairs.
C12_Witness ==
    /\ dq.bits \in {2, 1} /\ dq.res.status = "ok"
    /\ dq.self = [h |-> 2, w |-> 2]
    /\ dq.s.data = ScaleOf(2)
    /\ Len(dq.res.data) = (8 \div dq.bits) * 4
    /\ \E p \in 1..Len(dq.res.data) : dq.res.data[p] > 0

\* C13: 3-bit dequantization sends the field (word >> (27 - 3k)) & 7 of
\* word i to out[k*h*w + i] with column i mod w; the raw value is in 0..7
\* for words of either sign, and bits 31 and 30 reach no output element.
C13_Dequant3Bit ==
    DqWellFormed(3) =>
        LET n == dq.self.h * dq.self.w
            Raw(i, k) == (dq.wt.data[i + 1] \div Pow2(27 - 3 * k)) % 8
        IN  /\ dq.res.status = "ok"
            /\ Len(dq.res.data) = 10 * n
            /\ \A i \in 0..(n - 1), k \in 0..9 :
                  /\ Raw(i, k) \in 0..7
                  /\ dq.res.data[k * n + i + 1] = DqAffine(Raw(i, k), i % dq.self.w)
            /\ dq.codes # <<>> =>
                  \A i \in 0..(n - 1), k \in 0..9 :
                      dq.res.data[k * n + i + 1] =
                          DqAffine(dq.codes[k * n + i + 1], i % dq.self.w)

\* A negative word: bit 31 is set, and the fields are still the codes.
C13_Witness ==
    /\ dq.bits = 3 /\ dq.res.status = "ok"
    /\ dq.self = [h |-> 1, w |-> 2]
    /\ Len(dq.codes) = 20 /\ dq.codes[1] = 2 /\ dq.codes[19] = 4
    /\ dq.s.data = UnitScale(2) /\ dq.z.data = ZeroZero(2)
    /\ dq.wt.data[1] < 0
    /\ dq.res.data[1] = 2 /\ dq.res.data[19] = 4

\* C14: packing a code matrix with the documented layout and dequantizing
\* it with scale 1 and zero 0 returns the codes at their positions, for
\* every bit width.
C14_RoundTrip ==
    (/\ dq.res # DqNone /\ dq.codes # <<>>
     /\ dq.s.data = UnitScale(dq.self.w) /\ dq.z.data = ZeroZero(dq.self.w))
    => /\ dq.res.status = "ok"
       /\ dq.res.shape = <<PACK_FACTOR(dq.bits) * dq.self.h, dq.self.w>>
       /\ dq.res.data = dq.codes

C14_Witness ==
    /\ dq.bits = 1 /\ dq.res.status = "ok"
    /\ dq.self = [h |-> 2, w |-> 3]
    /\ dq.s.data = UnitScale(3) /\ dq.z.data = ZeroZero(3)
    /\ Len(dq.codes) = 48 /\ dq.codes[1] = 0 /\ dq.codes[2] = 1
    /\ dq.res.data = dq.codes

\* C15: every accepted call returns shape [pack_factor*h, w] and a buffer
\* of pack_factor*h*w elements, each written exactly once.
C15_ShapeAndWrites ==
    (dq.res # DqNone /\ dq.res.status = "ok") =>
        LET n == PACK_FACTOR(dq.bits) * dq.self.h * dq.self.w
        IN  /\ dq.res.shape = <<PACK_FACTOR(dq.bits) * dq.self.h, dq.self.w>>
            /\ Len(dq.res.data) = n
            /\ dq.bits # 8 => \A p \in 1..Len(dq.res.data) : dq.res.writes[p] = 1

DqFailsCheck ==
    \/ dq.wt.kind # WeightKind(dq.bits)
    \/ ~(dq.l_w /\ dq.l_s /\ dq.l_z)
    \/ ~(dq.s.kind = dq.z.kind /\ dq.s.kind \in {"F32", "F16", "BF16"})

\* C16: a call with a weight of the wrong storage type, a non-contiguous
\* input, or scale and zero not of one of F32/F16/BF16 returns an error and
\* no output; dequantize runs only after the three checks passed.
C16_ChecksFirst ==
    dq.res # DqNone =>
        /\ DqFailsCheck =>
              /\ dq.res.status \notin {"ok", "panic"}
              /\ dq.res.data = <<>> /\ dq.res.shape = <<>>
        /\ dq.res.status \in {"ok", "panic"} => ~DqFailsCheck

\* A 3-bit call whose scale alone is not contiguous.
C16_Witness ==
    /\ dq.bits = 3 /\ dq.res # DqNone
    /\ dq.wt.kind = "I32" /\ dq.l_w /\ ~dq.l_s /\ dq.l_z
    /\ dq.s.kind = "F16" /\ dq.z.kind = "F16"
    /\ dq.res.status = "All inputs must be contiguous"

\* C17: PhiRotaryEmbedding::forward and the Llama3 variant of
\* Llama3RotaryEmbedding::forward rotate sequence i of q and k with rows
\* [offset_i, offset_i + seq_len) of the selected table, position t with row
\* offset_i + t, each sequence with its own offset, and row block i of the
\* result is the rotation of input sequence i.
C17_RotationPerSequence ==
    (/\ rot.kind \in {"phi", "llama3"} /\ rot.res.status = "ok"
     /\ rot.kind = "llama3" => rot.self.variant = "Llama3") =>
        LET isPhi == rot.kind = "phi"
            out_q == IF isPhi THEN rot.res.out_q ELSE rot.res.q
            out_k == IF isPhi THEN rot.res.out_k ELSE rot.res.k
            s     == IF isPhi THEN rot.q.dims[3] ELSE rot.q.dims[1] \div rot.b_sz
            sk    == IF isPhi THEN rot.k.dims[3] ELSE rot.k.dims[1] \div rot.b_sz
            table == IF isPhi
                     THEN get_long_or_short_sin_cos(rot.self, rot.position_ids).sin_cos
                     ELSE rot.self.sin_cos
            fn    == IF isPhi \/ rot.self.is_gptx THEN "rope" ELSE "rope_i"
            In(x, i, t, n) == IF isPhi THEN x.data[i][t] ELSE x.data[(i - 1) * n + t]
        IN  /\ Len(out_q.data) = Len(rot.offsets)
            /\ Len(out_k.data) = Len(rot.offsets)
            /\ sk <= s
            /\ \A i \in 1..Len(rot.offsets) :
                  /\ rot.offsets[i] + s <= table.rows
                  /\ Len(out_q.data[i]) = s /\ Len(out_k.data[i]) = sk
                  /\ \A t \in 1..s :
                        out_q.data[i][t] =
                            Rotated(In(rot.q, i, t, s), table,
                                    rot.offsets[i] + t - 1, fn)
                  /\ \A t \in 1..sk :
                        out_k.data[i][t] =
                            Rotated(In(rot.k, i, t, sk), table,
                                    rot.offsets[i] + t - 1, fn)

\* Two sequences of two positions with different offsets, rotated by the
\* Llama3 variant.
C17_Witness ==
    /\ rot.kind = "llama3" /\ rot.res.status = "ok"
    /\ rot.self.variant = "Llama3" /\ rot.k.dims = <<4, 1, 2>>
    /\ rot.offsets = <<1, 0>> /\ rot.b_sz = 2
    /\ rot.q.dims = <<4, 2, 2>>
    /\ rot.res.q.dims = <<2, 2, 2, 2>>
    /\ rot.res.q.data[1][1].row = 1 /\ rot.res.q.data[2][1].row = 0

\* C18: a successful PhiRotaryEmbedding::forward returns q and k of the
\* shapes of the input q and k, whatever the length of seqlen_offsets.
C18_ForwardKeepsShape ==
    (rot.kind = "phi" /\ rot.res.status = "ok") =>
        /\ rot.res.out_q.dims = rot.q.dims
        /\ rot.res.out_k.dims = rot.k.dims

\* C19: a forward call of any of the three embeddings leaves the stored
\* tables (and inv_freq) and the caller's q and k as they were.
C19_ForwardIsPure ==
    rot.res # NotCalled =>
        /\ rot.self_after = rot.self
        /\ rot.res.q = rot.q
        /\ rot.res.k = rot.k

\* C27: for buffers of any lengths that pass the three checks, cpu_fwd of
\* every dequant op returns Ok or Err; it never aborts on an out-of-bounds
\* access.
C27_DequantNeverPanics ==
    (dq.res # DqNone /\ ~DqFailsCheck) => dq.res.status # "panic"

\* C28: PhiRotaryEmbedding::forward returns Ok or Err for every input, and
\* an offset with offset_i + seq_len beyond the rows of the table is an
\* error of the whole call.
C28_PhiForwardNeverPanics ==
    (rot.kind = "phi" /\ rot.res # NotCalled) =>
        /\ rot.res.status \in {"ok", "err"}
        /\ rot.res.status = "ok" =>
              \A i \in 1..Len(rot.offsets) :
                  rot.offsets[i] + rot.q.dims[3] <=
                      get_long_or_short_sin_cos(rot.self, rot.position_ids).sin_cos.rows

\* C26: the Llama3 variant rotates every sequence of q and k of every call
\* split-half (pairs (j, j + dim/2)) when is_gptx is true and adjacent-pair
\* (pairs (2j, 2j + 1)) when it is false, and forward leaves the flag as
\* construction set it.
C26_RotationConvention ==
    (/\ rot.kind = "llama3" /\ rot.self.variant = "Llama3"
     /\ rot.res # NotCalled) =>
        /\ rot.self_after.is_gptx = rot.self.is_gptx
        /\ rot.res.status = "ok" =>
              LET d == rot.q.dims[3]
                  Want == IF rot.self.is_gptx
                          THEN {<<j, j + d \div 2>> : j \in 0..(d \div 2 - 1)}
                          ELSE {<<2 * j, 2 * j + 1>> : j \in 0..(d \div 2 - 1)}
              IN  \A i \in 1..Len(rot.res.q.data) :
                      /\ \A t \in 1..Len(rot.res.q.data[i]) :
                            RotationPairs(rot.res.q.data[i][t].fn, d) = Want
                      /\ \A t \in 1..Len(rot.res.k.data[i]) :
                            RotationPairs(rot.res.k.data[i][t].fn, d) = Want

\* Two sequences rotated adjacent-pair by an embedding built with
\* is_gptx = false.
C26_Witness ==
    /\ rot.kind = "llama3" /\ rot.res.status = "ok"
    /\ rot.self.variant = "Llama3"
    /\ ~rot.self.is_gptx /\ rot.q.dims[3] = 4
    /\ Len(rot.res.q.data) = 2
    /\ rot.res.q.data[2][1].fn = "rope_i" /\ rot.res.k.data[2][1].fn = "rope_i"

\* C23: unscaled construction (rope_scaling = None) builds one table that
\* is determined by head_dim and max_position_embeddings alone (rope_theta
\* and dtype are fixed in the model), of shape [max_position_embeddings,
\* head_dim/2], and no long table; two constructions with these parameters
\* equal therefore return the same tables.
C23_UnscaledOneTable ==
    Constructed =>
        (phi.cfg.rope_scaling.kind = None =>
            /\ phi.res.status = "ok"
            /\ phi.res.short = Table(phi.cfg.max_position_embeddings,
                                     phi.cfg.head_dim \div 2, <<>>, "1.0")
            /\ ~phi.res.has_long /\ phi.res.long = NoTable)

\* C22: a Qwen2VLRotaryEmbedding whose mrope_section widths do not sum to
\* head_dim / 2 is rejected by new with an error, so compute_cos_sin never
\* runs on such an embedding and is never the first to detect the mismatch.
C22_SectionSumCheckedAtConstruction ==
    SumSeq(qwen.mrope_section) # qwen.head_dim \div 2 =>
        /\ qwen.new.status # "ok"
        /\ qwen.cos_sin.status = "not called"

QwenRow(table, b, t) ==
    IF Len(qwen.position_ids[1]) = 1 THEN table[t] ELSE table[b][t]

\* C24: a successful compute_cos_sin returns cos and sin tables with one row
\* per position (per batch row when there are several) and as many columns
\* as the widths of mrope_section sum to; the columns of the k-th section
\* (k from 0) are the same feature columns of the table of position axis
\* k mod 3.
C24_SectionsFromAxes ==
    qwen.cos_sin.status = "ok" =>
        LET sec == qwen.mrope_section
            ids == qwen.position_ids
            bs  == Len(ids[1])
            seq == Len(ids[1][1])
            cs  == qwen.cos_sin
        IN  /\ cs.dims = IF bs = 1 THEN <<seq, SumSeq(sec)>>
                         ELSE <<bs, seq, SumSeq(sec)>>
            /\ \A b \in 1..bs, t \in 1..seq :
                /\ Len(QwenRow(cs.cos, b, t)) = SumSeq(sec)
                /\ Len(QwenRow(cs.sin, b, t)) = SumSeq(sec)
                /\ \A k \in 1..Len(sec) : \A c \in 1..sec[k] :
                    LET col == SumSeq(SubSeq(sec, 1, k - 1)) + c
                        pos == ids[((k - 1) % 3) + 1][b][t]
                    IN  /\ QwenRow(cs.cos, b, t)[col] =
                               [fn |-> "cos", pos |-> pos, freq |-> col]
                        /\ QwenRow(cs.sin, b, t)[col] =
                               [fn |-> "sin", pos |-> pos, freq |-> col]

\* Four sections, so that the fourth takes the first axis again, on position
\* ids that differ between the axes.
C24_Witness ==
    /\ qwen.cos_sin.status = "ok"
    /\ Len(qwen.mrope_section) = 4
    /\ \A k \in 1..4 : qwen.mrope_section[k] >= 1
    /\ Len(qwen.position_ids[1]) = 2 /\ Len(qwen.position_ids[1][1]) = 2
    /\ qwen.position_ids[1][1][1] # qwen.position_ids[2][1][1]

L3Scaled(res) == res.status = "ok" /\ res.variant = "Llama3"

\* The interpolation of one default frequency f as the claim words it, on
\* the wavelength L = 2 * PI / f.
L3Band(f, rs) ==
    LET L    == QDiv(TwoPi, f)
        orig == QInt(rs.original_max_position_embeddings)
    IN  IF QLt(L, QDiv(orig, QInt(rs.high_freq_factor))) THEN "high"
        ELSE IF QLt(QDiv(orig, QInt(rs.low_freq_factor)), L) THEN "low"
        ELSE "middle"

L3Interpolated(f, rs) ==
    LET L == QDiv(TwoPi, f)
        s == QDiv(QSub(QDiv(QInt(rs.original_max_position_embeddings), L),
                       QInt(rs.low_freq_factor)),
                  QInt(rs.high_freq_factor - rs.low_freq_factor))
        scaled == QDiv(f, QInt(rs.factor))
    IN  QAdd(QMul(QSub(QInt(1), s), scaled), QMul(s, f))

L3Expected(res, cfg) ==
    LET rs       == cfg.rope_scaling
        head_dim == cfg.hidden_size \div cfg.num_attention_heads
        n        == (head_dim + 1) \div 2
        f(j)     == Q(1, powf(cfg.rope_theta, 2 * (j - 1), head_dim))
    IN  /\ Len(res.cos.inv_freq) = n /\ res.sin.inv_freq = res.cos.inv_freq
        /\ res.cos.rows = cfg.max_position_embeddings
        /\ res.sin.rows = cfg.max_position_embeddings
        /\ \A j \in 1..n :
            /\ L3Band(f(j), rs) = "high" => res.cos.inv_freq[j] = f(j)
            /\ L3Band(f(j), rs) = "low" =>
                   res.cos.inv_freq[j] = QDiv(f(j), QInt(rs.factor))
            /\ L3Band(f(j), rs) = "middle" =>
                   res.cos.inv_freq[j] = L3Interpolated(f(j), rs)

\* C25: with llama3 scaling every default frequency f of wavelength
\* L = 2 * PI / f is kept when L < original_max / high_freq_factor, divided
\* by factor when L > original_max / low_freq_factor, and otherwise becomes
\* (1 - s) * f / factor + s * f for s = (original_max / L - low_freq_factor)
\* / (high_freq_factor - low_freq_factor); new_llama3 and new_mllama3 build
\* the same frequencies from the same parameters; each builds one sin and
\* one cos table of max_position_embeddings rows over these frequencies.
C25_Llama3Interpolation ==
    /\ L3Scaled(l3.llama) => L3Expected(l3.llama, l3.cfg)
    /\ L3Scaled(l3.mllama) => L3Expected(l3.mllama, l3.cfg)
    /\ (L3Scaled(l3.llama) /\ L3Scaled(l3.mllama)) =>
            /\ l3.llama.cos = l3.mllama.cos
            /\ l3.llama.sin = l3.mllama.sin

\* Both constructors have run on a configuration whose frequencies fall in
\* all three bands.
C25_Witness ==
    /\ L3Scaled(l3.llama) /\ L3Scaled(l3.mllama)
    /\ l3.cfg.rope_scaling.low_freq_factor < l3.cfg.rope_scaling.high_freq_factor
    /\ LET def == calculate_default_inv_freq(l3.cfg)
       IN  {L3Band(def[j], l3.cfg.rope_scaling) : j \in DOMAIN def}
               = {"high", "middle", "low"}

QuantEvents(call) ==
    {j \in DOMAIN call.events :
        call.events[j].name \in {"quantize", "load_from_artifacts"}}
Made(call, name) == \E j \in DOMAIN call.events : call.events[j].name = name

\* C21: in a load call the pipeline handle is created only after quantize
\* or load_from_artifacts, whichever the call makes, has returned Ok; when
\* either fails the call returns the error and creates no handle.
C21_QuantizedBeforeHandle ==
    \A t \in LoadThreads :
        LET call == loader.calls[t]
        IN  /\ \A i \in DOMAIN call.events :
                call.events[i].name = "Arc::new" =>
                    \A j \in QuantEvents(call) : j < i /\ call.events[j].ok
            /\ (\E j \in QuantEvents(call) : ~call.events[j].ok) =>
                    /\ call.result = "err"
                    /\ ~Made(call, "Arc::new")
            /\ call.result = "ok" <=> Made(call, "Arc::new")
            /\ pipeline.present =>
                    \E u \in LoadThreads : loader.calls[u].result = "ok"

\* A load that quantized and returned its pipeline.
C21_Witness ==
    /\ loader.calls[1].result = "ok"
    /\ Made(loader.calls[1], "quantize")
    /\ pipeline.present

\* C29: a successful load makes exactly one of: one quantize call (when
\* config.from_uqff is unset and in_situ_quant or a topology is given), one
\* load_from_artifacts call (when config.from_uqff is set), or neither;
\* whichever it makes, the weights were loaded on the CPU (loading_isq).
C29_QuantizeXorArtifacts ==
    \A t \in LoadThreads :
        LET call == loader.calls[t]
            cfg  == loader.self.config
        IN  call.result = "ok" =>
                /\ Cardinality(QuantEvents(call)) <= 1
                /\ Made(call, "quantize") <=>
                       (~cfg.from_uqff
                        /\ (call.in_situ_quant \/ cfg.topology # <<>>))
                /\ Made(call, "load_from_artifacts") <=> cfg.from_uqff
                /\ QuantEvents(call) # {} =>
                       /\ call.loading_isq
                       /\ \A j \in DOMAIN call.events :
                            call.events[j].name = "load" =>
                                call.events[j].device = "cpu"

\* C30: given a ModelInputs value, forward_inputs calls the model only when
\* the pipeline has a cache
\* engine exactly if the inputs carry PagedAttention metadata; on a mismatch
\* it returns an error without calling forward or xlora_forward; a
\* successful call returns RawLogits exactly if return_raw_logits is set,
\* and CausalGeneration otherwise.
C30_ForwardInputs ==
    LET f == pipeline.fwd
    IN  f.called =>
            /\ f.model_calls # <<>> =>
                   /\ f.is_model_inputs
                   /\ pipeline.cache_engine <=> f.paged_attn_meta
            /\ (f.is_model_inputs /\ pipeline.cache_engine # f.paged_attn_meta) =>
                   f.status \notin {"ok", "none", "panic"} /\ f.model_calls = <<>>
            /\ f.status = "ok" =>
                   /\ f.variant = IF f.return_raw_logits THEN "RawLogits"
                                  ELSE "CausalGeneration"
                   /\ f.model_calls =
                          <<IF pipeline.model_is_xlora THEN "xlora_forward"
                            ELSE "forward">>

\* A pipeline with a cache engine was called without PagedAttention metadata.
C30_Witness ==
    /\ pipeline.fwd.called /\ pipeline.fwd.is_model_inputs
    /\ pipeline.cache_engine /\ ~pipeline.fwd.paged_attn_meta
    /\ pipeline.fwd.model_calls = <<>>

====
